---------------------------- MODULE Spec2Model ----------------------------
(***************************************************************************)
(* A model of midastouch/accounts.py: the per-account transaction store    *)
(* (DebitAccount / CreditAccount over a SQLite table), the category file,  *)
(* and the TransactionQuery builder with its terminal operations; and of   *)
(* the balance columns of midastouch/pdf_to_csv.py.                        *)
(*                                                                         *)
(* Amounts and balances are exact numbers counted in thousandths of the    *)
(* currency unit, so that round(x, 2) is a real rounding (to a multiple of *)
(* Cent) and not the identity.  Dates are counted in ticks, with           *)
(* TicksPerSecond ticks to the second, so that strftime("...%S") is a real *)
(* truncation.  Strings are sequences of one-letter strings, so that       *)
(* "contains" is a real substring test.  An optional float is <<>> for     *)
(* None/NULL and <<a>> for the value a.  A keyword list is a sequence, so  *)
(* that a keyword can occur in it twice, and the category file is a        *)
(* mapping from the names it holds to their lists.                         *)
(***************************************************************************)
EXTENDS Integers, Sequences, FiniteSets, TLC

VARIABLES
    files,          \* the data directory: path of a .db file -> its table
    account_name,   \* self.name of the account object in use, if there is one
    kind,           \* "debit" | "credit": the account class / transaction_type
    store,          \* the rows of the account's table, in insertion order
    batch,          \* add_data: the rows of the loaded frame not yet iterated
    loading,        \* add_data, while it runs: the file it was given and the
                    \* table as it found it
    yaml,           \* categories.yml: category name -> keyword list
    cats,           \* live Category objects: their name and self.keywords
    query,          \* TransactionQuery.query: the accumulated filter and
                    \* order-by criteria
    group_by_attr,  \* TransactionQuery.group_by_attr
    result,         \* what the last call returned or raised
    pc,             \* convert_td_statement_to_csv: where it is in a page
    balance_col,    \* the balance column as the page prints it
    df              \* the frame of the page: Withdrawal, Deposit, Balance

accountVars == <<files, account_name>>
storeVars == <<store, batch, loading>>
catVars == <<yaml, cats>>
builderVars == <<query, group_by_attr>>
pdfVars == <<pc, balance_col, df>>
vars ==
    <<files, account_name, kind, store, batch, loading, yaml, cats, query,
      group_by_attr, result, pc, balance_col, df>>

----------------------------------------------------------------------------
(* Bounds of the model.                                                    *)

MaxStore == 2          \* rows an account may hold
MaxFilters == 2        \* filter criteria a builder may accumulate
TicksPerSecond == 2    \* resolution of a datetime below the second
MaxKeywords == 2       \* keywords a category may hold
MaxObjects == 2        \* Category objects alive at a time

(* round(x, 2): one hundredth is Cent thousandths.                         *)
Cent == 10

None == <<>>
Some(a) == <<a>>
IsNone(x) == x = <<>>
Val(x) == x[1]

Kinds == {"debit", "credit"}

----------------------------------------------------------------------------
(* Python's round(x, 2) on a number counted in thousandths: the nearest    *)
(* multiple of Cent, a tie going to the even hundredth.                    *)

Abs(x) == IF x < 0 THEN -x ELSE x

Round2(x) ==
    LET a == Abs(x)
        q == a \div Cent
        r == a % Cent
        m == IF 2 * r > Cent THEN q + 1
             ELSE IF 2 * r < Cent THEN q
             ELSE IF q % 2 = 0 THEN q ELSE q + 1
    IN  IF x < 0 THEN -(m * Cent) ELSE m * Cent

(* total / count, kept exact as a fraction in lowest terms.                *)
RECURSIVE Gcd(_, _)
Gcd(a, b) == IF b = 0 THEN a ELSE Gcd(b, a % b)

TrueDiv(total, count) ==
    LET g == Gcd(Abs(total), count)
    IN  [num |-> total \div g, den |-> count \div g]

----------------------------------------------------------------------------
(* generate_hash_id.  strftime("%Y-%m-%d %H:%M:%S") keeps the date down to *)
(* the second; str() of a float or of None and sha256 are injective and    *)
(* are left as the tuple of what was formatted.                            *)

strftime(date) == date \div TicksPerSecond

generate_hash_id(description, date, deposit, withdrawal, balance) ==
    <<description, strftime(date), deposit, withdrawal, balance>>

(* The arguments of one _add_transaction call.  On a credit account the    *)
(* fields deposit / withdrawal hold charge / payment, the way              *)
(* CreditAccount passes them to generate_hash_id and filter_amount names   *)
(* them deposit_col / withdrawal_col.                                      *)
Row(description, date, deposit, withdrawal, balance) ==
    [description |-> description, date |-> date, deposit |-> deposit,
     withdrawal |-> withdrawal, balance |-> balance]

Tuple(r) == <<r.description, r.date, r.deposit, r.withdrawal, r.balance>>

Transaction(id, r) ==
    [id |-> id, description |-> r.description, date |-> r.date,
     deposit |-> r.deposit, withdrawal |-> r.withdrawal, balance |-> r.balance]

(* Mutant: a row added without a look at the ids in the table.             *)
add_transaction_always(table, r) ==
    Append(table, Transaction(generate_hash_id(r.description, r.date, r.deposit,
                                               r.withdrawal, r.balance), r))

(* Mutant: a row whose id is in the table written over the stored one.     *)
add_transaction_replace(table, r) ==
    LET id == generate_hash_id(r.description, r.date, r.deposit,
                               r.withdrawal, r.balance)
    IN  IF \E i \in 1..Len(table) : table[i].id = id
        THEN [i \in 1..Len(table) |->
                 IF table[i].id = id THEN Transaction(id, r) ELSE table[i]]
        ELSE Append(table, Transaction(id, r))

(* DebitAccount._add_transaction / CreditAccount._add_transaction: the     *)
(* table after the call.                                                   *)
add_transaction(table, r) ==
    LET id == generate_hash_id(r.description, r.date, r.deposit,
                               r.withdrawal, r.balance)
    IN  IF \E i \in 1..Len(table) : table[i].id = id
        THEN table
        ELSE Append(table, Transaction(id, r))

----------------------------------------------------------------------------
(* _load_csv_data: the frame is reversed unless its dates are monotonic    *)
(* increasing (pandas: non-decreasing).                                    *)

is_monotonic_increasing(rows) ==
    \A i \in 1..(Len(rows) - 1) : rows[i].date <= rows[i + 1].date

Reverse(s) == [i \in 1..Len(s) |-> s[Len(s) + 1 - i]]

(* Mutant: the frame sorted by date.                                       *)
RECURSIVE load_csv_data_sorted(_)
load_csv_data_sorted(file) ==
    IF Len(file) <= 1 THEN file
    ELSE LET h == Head(file)
             rest == load_csv_data_sorted(Tail(file))
             n == Cardinality({i \in 1..Len(rest) : rest[i].date < h.date})
         IN  SubSeq(rest, 1, n) \o <<h>> \o SubSeq(rest, n + 1, Len(rest))

load_csv_data(file) ==
    IF ~is_monotonic_increasing(file) THEN Reverse(file) ELSE file


----------------------------------------------------------------------------
(* SQL's three-valued logic: a comparison with NULL is NULL, and a WHERE   *)
(* clause keeps the rows whose criterion is TRUE.                          *)

SqlTrue == "TRUE"
SqlFalse == "FALSE"
SqlNull == "NULL"

Bool3(b) == IF b THEN SqlTrue ELSE SqlFalse

or_(a, b) ==
    IF a = SqlTrue \/ b = SqlTrue THEN SqlTrue
    ELSE IF a = SqlFalse /\ b = SqlFalse THEN SqlFalse
    ELSE SqlNull

and_(a, b) ==
    IF a = SqlFalse \/ b = SqlFalse THEN SqlFalse
    ELSE IF a = SqlTrue /\ b = SqlTrue THEN SqlTrue
    ELSE SqlNull

not_(a) ==
    IF a = SqlTrue THEN SqlFalse
    ELSE IF a = SqlFalse THEN SqlTrue
    ELSE SqlNull

(* Mutants: a bound taken as exclusive.                                    *)
GeStrict(col, v) == IF IsNone(col) THEN SqlNull ELSE Bool3(Val(col) > v)
LeStrict(col, v) == IF IsNone(col) THEN SqlNull ELSE Bool3(Val(col) < v)

Lt(col, v) == IF IsNone(col) THEN SqlNull ELSE Bool3(Val(col) < v)
Le(col, v) == IF IsNone(col) THEN SqlNull ELSE Bool3(Val(col) <= v)
Gt(col, v) == IF IsNone(col) THEN SqlNull ELSE Bool3(Val(col) > v)
Ge(col, v) == IF IsNone(col) THEN SqlNull ELSE Bool3(Val(col) >= v)

(* or_ over a non-empty list of operands.                                  *)
RECURSIVE OrAll(_)
OrAll(s) == IF Len(s) = 1 THEN s[1] ELSE or_(s[1], OrAll(Tail(s)))

(* Mutant: the keyword looked for at the start of the description only.    *)
contains_prefix(description, keyword) ==
    Bool3(Len(keyword) <= Len(description)
          /\ SubSeq(description, 1, Len(keyword)) = keyword)

(* description.contains(keyword): keyword occurs in description as a       *)
(* contiguous run of characters.                                           *)
contains(description, keyword) ==
    Bool3(\E i \in 1..(Len(description) - Len(keyword) + 1) :
              SubSeq(description, i, i + Len(keyword) - 1) = keyword)

----------------------------------------------------------------------------
(* The criteria the builder's methods hand to query.filter, one shape per  *)
(* branch of the code, and their value on a row.                           *)

Crit(f, col, lo, hi, kws) ==
    [f |-> f, col |-> col, lo |-> lo, hi |-> hi, kws |-> kws]

Eval(c, r) ==
    CASE c.f = "is_null"     -> Bool3(IsNone(r[c.col]))
      [] c.f = "date_out"    -> or_(Lt(Some(r.date), Val(c.lo)),
                                    Gt(Some(r.date), Val(c.hi)))
      [] c.f = "date_in"     -> and_(Ge(Some(r.date), Val(c.lo)),
                                     Le(Some(r.date), Val(c.hi)))
      [] c.f = "date_lt"     -> Lt(Some(r.date), Val(c.lo))
      [] c.f = "date_ge"     -> Ge(Some(r.date), Val(c.lo))
      [] c.f = "date_gt"     -> Gt(Some(r.date), Val(c.hi))
      [] c.f = "date_le"     -> Le(Some(r.date), Val(c.hi))
      [] c.f = "contains"    -> contains(r.description, c.kws[1])
      [] c.f = "not_contains" -> not_(contains(r.description, c.kws[1]))
      [] c.f = "any_of"      ->
            OrAll([i \in 1..Len(c.kws) |-> contains(r.description, c.kws[i])])
      [] c.f = "none_of"     ->
            not_(OrAll([i \in 1..Len(c.kws) |->
                            contains(r.description, c.kws[i])]))
      [] c.f = "amount_out"  ->
            or_(or_(Lt(r.deposit, Val(c.lo)), Gt(r.deposit, Val(c.hi))),
                or_(Lt(r.withdrawal, Val(c.lo)), Gt(r.withdrawal, Val(c.hi))))
      [] c.f = "amount_in"   ->
            or_(and_(Ge(r.deposit, Val(c.lo)), Le(r.deposit, Val(c.hi))),
                and_(Ge(r.withdrawal, Val(c.lo)), Le(r.withdrawal, Val(c.hi))))
      [] c.f = "amount_lt"   -> or_(Lt(r.deposit, Val(c.lo)),
                                    Lt(r.withdrawal, Val(c.lo)))
      [] c.f = "amount_ge"   -> or_(Ge(r.deposit, Val(c.lo)),
                                    Ge(r.withdrawal, Val(c.lo)))
      [] c.f = "amount_gt"   -> or_(Gt(r.deposit, Val(c.hi)),
                                    Gt(r.withdrawal, Val(c.hi)))
      [] c.f = "amount_le"   -> or_(Le(r.deposit, Val(c.hi)),
                                    Le(r.withdrawal, Val(c.hi)))
      [] c.f \in {"order_asc", "order_desc"} -> SqlTrue

(* The rows the query selects: those on which every criterion is TRUE; an  *)
(* ORDER BY criterion selects nothing out.                                 *)
Selected(q, r) == \A i \in 1..Len(q) : Eval(q[i], r) = SqlTrue

Matching(table, q) == SelectSeq(table, LAMBDA r : Selected(q, r))

----------------------------------------------------------------------------
(* TransactionQuery's filter methods: the query after the call.            *)

(* Mutant: the include flag read the wrong way round.                      *)
filter_transactions_flipped(q, include, transaction_field) ==
    IF include
    THEN Append(q, Crit("is_null", transaction_field, None, None, <<>>))
    ELSE q

filter_transactions(q, include, transaction_field) ==
    IF ~include
    THEN Append(q, Crit("is_null", transaction_field, None, None, <<>>))
    ELSE q

filter_deposits(q, k, include) ==
    IF k = "debit" THEN filter_transactions(q, include, "deposit") ELSE q

(* Mutant: filter_withdrawals testing the deposit column.                   *)
filter_withdrawals_swapped(q, k, include) ==
    IF k = "debit" THEN filter_transactions(q, include, "deposit") ELSE q

filter_withdrawals(q, k, include) ==
    IF k = "debit" THEN filter_transactions(q, include, "withdrawal") ELSE q

filter_charges(q, k, include) ==
    IF k = "credit" THEN filter_transactions(q, include, "deposit") ELSE q

filter_payments(q, k, include) ==
    IF k = "credit" THEN filter_transactions(q, include, "withdrawal") ELSE q

filter_date_range(q, date_start, date_end, invert) ==
    IF ~IsNone(date_start) /\ ~IsNone(date_end)
    THEN IF invert
         THEN Append(q, Crit("date_out", "date", date_start, date_end, <<>>))
         ELSE Append(q, Crit("date_in", "date", date_start, date_end, <<>>))
    ELSE IF ~IsNone(date_start)
    THEN IF invert
         THEN Append(q, Crit("date_lt", "date", date_start, None, <<>>))
         ELSE Append(q, Crit("date_ge", "date", date_start, None, <<>>))
    ELSE IF ~IsNone(date_end)
    THEN IF invert
         THEN Append(q, Crit("date_gt", "date", None, date_end, <<>>))
         ELSE Append(q, Crit("date_le", "date", None, date_end, <<>>))
    ELSE q

(* description_contains is [type |-> "None", v |-> <<>>], [type |-> "str", *)
(* v |-> <<the string>>], [type |-> "list", v |-> a non-empty list of      *)
(* strings] or [type |-> "Category", v |-> the keywords of the Category    *)
(* object].                                                                *)
filter_description(q, description_contains, invert) ==
    IF description_contains.type = "None"
    THEN q
    ELSE IF description_contains.type = "str"
    THEN IF invert
         THEN Append(q, Crit("not_contains", "description", None, None,
                             description_contains.v))
         ELSE Append(q, Crit("contains", "description", None, None,
                             description_contains.v))
    ELSE IF description_contains.type = "list"
    THEN IF invert
         THEN Append(q, Crit("none_of", "description", None, None,
                             description_contains.v))
         ELSE Append(q, Crit("any_of", "description", None, None,
                             description_contains.v))
    ELSE IF Len(description_contains.v) = 0
    THEN q
    ELSE IF invert
         THEN Append(q, Crit("none_of", "description", None, None,
                             description_contains.v))
         ELSE Append(q, Crit("any_of", "description", None, None,
                             description_contains.v))

(* Mutant: the inverse of a lower bound taken as "at most" the bound.       *)
filter_amount_at_most(q, min_amount, max_amount, invert) ==
    IF ~IsNone(min_amount) /\ ~IsNone(max_amount)
    THEN IF invert
         THEN Append(q, Crit("amount_out", "amount", min_amount, max_amount, <<>>))
         ELSE Append(q, Crit("amount_in", "amount", min_amount, max_amount, <<>>))
    ELSE IF ~IsNone(min_amount)
    THEN IF invert
         THEN Append(q, Crit("amount_le", "amount", None, min_amount, <<>>))
         ELSE Append(q, Crit("amount_ge", "amount", min_amount, None, <<>>))
    ELSE IF ~IsNone(max_amount)
    THEN IF invert
         THEN Append(q, Crit("amount_gt", "amount", None, max_amount, <<>>))
         ELSE Append(q, Crit("amount_le", "amount", None, max_amount, <<>>))
    ELSE q

filter_amount(q, min_amount, max_amount, invert) ==
    IF ~IsNone(min_amount) /\ ~IsNone(max_amount)
    THEN IF invert
         THEN Append(q, Crit("amount_out", "amount", min_amount, max_amount, <<>>))
         ELSE Append(q, Crit("amount_in", "amount", min_amount, max_amount, <<>>))
    ELSE IF ~IsNone(min_amount)
    THEN IF invert
         THEN Append(q, Crit("amount_lt", "amount", min_amount, None, <<>>))
         ELSE Append(q, Crit("amount_ge", "amount", min_amount, None, <<>>))
    ELSE IF ~IsNone(max_amount)
    THEN IF invert
         THEN Append(q, Crit("amount_gt", "amount", None, max_amount, <<>>))
         ELSE Append(q, Crit("amount_le", "amount", None, max_amount, <<>>))
    ELSE q

----------------------------------------------------------------------------
(* The terminal operations of an ungrouped builder.                        *)

(* func.coalesce(func.sum(column), 0): SUM skips NULLs.                    *)
RECURSIVE SumCol(_, _)
SumCol(rows, col) ==
    IF rows = <<>> THEN 0
    ELSE (IF IsNone(Head(rows)[col]) THEN 0 ELSE Val(Head(rows)[col]))
         + SumCol(Tail(rows), col)

count(table, q) == Len(Matching(table, q))

(* Mutant: the total returned without rounding.                            *)
sum_unrounded(table, q, k) ==
    LET rows == Matching(table, q)
        first == SumCol(rows, "deposit")
        second == SumCol(rows, "withdrawal")
    IN  IF k = "debit" THEN first - second ELSE second - first

(* TransactionQuery.sum: on a credit query the charge total is bound to    *)
(* `withdrawal` and the payment total to `deposit`.                        *)
sum(table, q, k) ==
    LET rows == Matching(table, q)
        first == SumCol(rows, "deposit")
        second == SumCol(rows, "withdrawal")
        deposit == IF k = "debit" THEN first ELSE second
        withdrawal == IF k = "debit" THEN second ELSE first
    IN  Round2(deposit - withdrawal)

(* What a call returned or raised.                                         *)
Returned(v) == [val |-> v, raised |-> "none"]
Raise(e) == [val |-> None, raised |-> e]

(* Mutant: no data answered with 0 instead of an error.                    *)
average_zero(table, q, k) ==
    IF Len(Matching(table, q)) = 0 THEN Returned(TrueDiv(0, 1))
    ELSE Returned(TrueDiv(sum(table, q, k), count(table, q)))

average(table, q, k) ==
    LET total == sum(table, q, k)
        n == count(table, q)
    IN  IF n = 0 THEN Raise("ValueError")
        ELSE Returned(TrueDiv(total, n))


----------------------------------------------------------------------------
(* Ordering.  _order_by appends an ORDER BY criterion to self.query; the   *)
(* rows come back sorted by the criteria in the order they were added,     *)
(* rows that tie on all of them in table order.                            *)

(* The letters a description is made of, in collation order.               *)
Ord(letter) ==
    CASE letter = "a" -> 1
      [] letter = "b" -> 2
      [] letter = "c" -> 3
      [] OTHER -> 4

(* -1, 0, 1: the first string sorts before, with, after the second.        *)
RECURSIVE StrCmp(_, _)
StrCmp(a, b) ==
    IF a = <<>> /\ b = <<>> THEN 0
    ELSE IF a = <<>> THEN -1
    ELSE IF b = <<>> THEN 1
    ELSE IF Ord(Head(a)) < Ord(Head(b)) THEN -1
    ELSE IF Ord(Head(a)) > Ord(Head(b)) THEN 1
    ELSE StrCmp(Tail(a), Tail(b))

IntCmp(a, b) == IF a < b THEN -1 ELSE IF a > b THEN 1 ELSE 0

(* func.abs(coalesce(deposit, 0) - coalesce(withdrawal, 0)), and the same  *)
(* over charge and payment.                                                *)
amount(r) ==
    Abs((IF IsNone(r.deposit) THEN 0 ELSE Val(r.deposit))
        - (IF IsNone(r.withdrawal) THEN 0 ELSE Val(r.withdrawal)))

(* How one ORDER BY criterion compares two rows.                           *)
CritCmp(c, r1, r2) ==
    LET up == CASE c.col = "date" -> IntCmp(r1.date, r2.date)
                [] c.col = "amount" -> IntCmp(amount(r1), amount(r2))
                [] c.col = "description" ->
                       StrCmp(r1.description, r2.description)
    IN  IF c.f = "order_asc" THEN up ELSE -up

OrderBys(q) == SelectSeq(q, LAMBDA c : c.f \in {"order_asc", "order_desc"})

RECURSIVE Precedes(_, _, _)
Precedes(orders, r1, r2) ==
    IF orders = <<>> THEN FALSE
    ELSE LET cmp == CritCmp(Head(orders), r1, r2)
         IN  IF cmp # 0 THEN cmp < 0 ELSE Precedes(Tail(orders), r1, r2)

RECURSIVE Sorted(_, _)
Sorted(rows, orders) ==
    IF Len(rows) <= 1 THEN rows
    ELSE LET h == Head(rows)
             rest == Sorted(Tail(rows), orders)
             n == Cardinality({i \in 1..Len(rest) : Precedes(orders, rest[i], h)})
         IN  SubSeq(rest, 1, n) \o <<h>> \o SubSeq(rest, n + 1, Len(rest))

OrderCrit(field, ascending) ==
    Crit(IF ascending THEN "order_asc" ELSE "order_desc", field, None, None, <<>>)

order_by(q, field, ascending) == Append(q, OrderCrit(field, ascending))

(* to_dict: the columns of a row without its id.                           *)
to_dict(txn) ==
    Row(txn.description, txn.date, txn.deposit, txn.withdrawal, txn.balance)

(* What a builder method leaves behind: what it returned or raised, and    *)
(* self.query.                                                             *)
Built(out, q) == [val |-> out.val, raised |-> out.raised, query |-> q]

(* Mutant: two ordering criteria accepted, the amount one winning.         *)
transactions_lenient(table, q, as_list, order_by_amount, order_by_description, ascending) ==
    LET now == IF order_by_amount THEN order_by(q, "amount", ascending)
               ELSE IF order_by_description
               THEN order_by(q, "description", ascending)
               ELSE order_by(q, "date", ascending)
    IN  IF as_list
        THEN Built(Returned(Sorted(Matching(table, now), OrderBys(now))), now)
        ELSE LET transactions_list ==
                     Sorted(Matching(table, now),
                            OrderBys(order_by(now, "date", TRUE)))
             IN  Built(Returned([i \in 1..Len(transactions_list) |->
                                    to_dict(transactions_list[i])]), now)

(* TransactionQuery.transactions.  The frame branch orders a copy of the   *)
(* query by date once more and leaves self.query as _order_by made it; it  *)
(* also keeps the listed rows in self.transactions_list, which no method   *)
(* reads.                                                                  *)
transactions(table, q, as_list, order_by_amount, order_by_description, ascending) ==
    IF order_by_amount /\ order_by_description
    THEN Built(Raise("ValueError"), q)
    ELSE LET now == IF order_by_amount THEN order_by(q, "amount", ascending)
                    ELSE IF order_by_description
                    THEN order_by(q, "description", ascending)
                    ELSE order_by(q, "date", ascending)
         IN  IF as_list
             THEN Built(Returned(Sorted(Matching(table, now), OrderBys(now))),
                        now)
             ELSE LET transactions_list ==
                          Sorted(Matching(table, now),
                                 OrderBys(order_by(now, "date", TRUE)))
                  IN  Built(Returned([i \in 1..Len(transactions_list) |->
                                         to_dict(transactions_list[i])]), now)

----------------------------------------------------------------------------
(* Grouping.  A date is counted in ticks from 2023-01-01 00:00:00, a       *)
(* Sunday; the calendar covers 2023 and 2024.                              *)

SecondsPerDay == 86400
DaysPerWeek == 7
EpochYear == 2023
DaysInEpochYear == 365

TicksPerDay == TicksPerSecond * SecondsPerDay

MonthLengths(year) ==
    <<31, IF year % 4 = 0 THEN 29 ELSE 28, 31, 30, 31, 30, 31, 31, 30, 31, 30, 31>>

DayNumber(date) == date \div TicksPerDay

Year(date) ==
    IF DayNumber(date) < DaysInEpochYear THEN EpochYear ELSE EpochYear + 1

(* %j - 1: the day of the year, from 0.                                    *)
YearDay(date) ==
    IF DayNumber(date) < DaysInEpochYear THEN DayNumber(date)
    ELSE DayNumber(date) - DaysInEpochYear

RECURSIVE DaysBefore(_, _)
DaysBefore(year, month) ==
    IF month = 1 THEN 0
    ELSE DaysBefore(year, month - 1) + MonthLengths(year)[month - 1]

(* %m and %d.                                                              *)
Month(date) ==
    CHOOSE m \in 1..12 :
        /\ DaysBefore(Year(date), m) <= YearDay(date)
        /\ YearDay(date) < DaysBefore(Year(date), m) + MonthLengths(Year(date))[m]

MonthDay(date) == YearDay(date) - DaysBefore(Year(date), Month(date)) + 1

(* %W: the week of the year, weeks starting on Monday, the days before the *)
(* first Monday in week 0.                                                 *)
Week(date) ==
    LET weekday == (DayNumber(date) + DaysPerWeek - 1) % DaysPerWeek
    IN  (YearDay(date) + DaysPerWeek - weekday) \div DaysPerWeek

Periods == {"day", "week", "month", "year"}

(* Mutant: months told apart by their number alone.                        *)
group_by_period_bare(attr, date) ==
    CASE attr = "day" -> <<Year(date), Month(date), MonthDay(date)>>
      [] attr = "week" -> <<Year(date), Week(date)>>
      [] attr = "month" -> <<Month(date)>>
      [] attr = "year" -> <<Year(date)>>

(* _group_by_period on a date: func.date, "%Y-%W", "%Y-%m", "%Y".  The     *)
(* zero-padded text sorts as the tuple of its numbers does.                *)
group_by_period(attr, date) ==
    CASE attr = "day" -> <<Year(date), Month(date), MonthDay(date)>>
      [] attr = "week" -> <<Year(date), Week(date)>>
      [] attr = "month" -> <<Year(date), Month(date)>>
      [] attr = "year" -> <<Year(date)>>

(* TransactionQuery.group_by.                                              *)
group_by(attr, period) ==
    IF period \notin Periods
    THEN [raised |-> "ValueError", group_by_attr |-> attr]
    ELSE [raised |-> "none", group_by_attr |-> Some(period)]

RECURSIVE PeriodCmp(_, _)
PeriodCmp(a, b) ==
    IF a = <<>> THEN 0
    ELSE IF Head(a) # Head(b) THEN IntCmp(Head(a), Head(b))
    ELSE PeriodCmp(Tail(a), Tail(b))

(* sort_values(by="period"): the periods of the groups, ascending.         *)
RECURSIVE SortedPeriods(_)
SortedPeriods(periods) ==
    IF periods = {} THEN <<>>
    ELSE LET first == CHOOSE p \in periods :
                          \A o \in periods : PeriodCmp(p, o) <= 0
         IN  <<first>> \o SortedPeriods(periods \ {first})

(* GROUP BY period: the periods of the matching rows, and the rows of one. *)
GroupPeriods(rows, attr) ==
    SortedPeriods({group_by_period(attr, rows[i].date) : i \in 1..Len(rows)})

Group(rows, attr, period) ==
    SelectSeq(rows, LAMBDA r : group_by_period(attr, r.date) = period)

(* count(), sum() and average() of a grouped builder, with their default   *)
(* arguments: a frame of one line per period.  sum() is not rounded here,  *)
(* and on a credit query it is payment_sum - charge_sum.  average() reads  *)
(* transaction_type.deposit, which CreditTransaction does not have.        *)
count_grouped(table, q, attr) ==
    LET rows == Matching(table, q)
        periods == GroupPeriods(rows, attr)
    IN  [i \in 1..Len(periods) |->
            [period |-> periods[i], count |-> Len(Group(rows, attr, periods[i]))]]

(* Mutant: the grouped credit sum as charges minus payments.               *)
sum_grouped_charges(table, q, k, attr) ==
    LET rows == Matching(table, q)
        periods == GroupPeriods(rows, attr)
        Total(g) == SumCol(g, "deposit") - SumCol(g, "withdrawal")
    IN  [i \in 1..Len(periods) |->
            [period |-> periods[i], sum |-> Total(Group(rows, attr, periods[i]))]]

sum_grouped(table, q, k, attr) ==
    LET rows == Matching(table, q)
        periods == GroupPeriods(rows, attr)
        Total(g) == IF k = "debit"
                    THEN SumCol(g, "deposit") - SumCol(g, "withdrawal")
                    ELSE SumCol(g, "withdrawal") - SumCol(g, "deposit")
    IN  [i \in 1..Len(periods) |->
            [period |-> periods[i], sum |-> Total(Group(rows, attr, periods[i]))]]

average_grouped(table, q, k, attr) ==
    LET rows == Matching(table, q)
        periods == GroupPeriods(rows, attr)
        Avg(g) == TrueDiv(SumCol(g, "deposit") - SumCol(g, "withdrawal"), Len(g))
    IN  IF k = "credit" THEN Raise("AttributeError")
        ELSE Returned([i \in 1..Len(periods) |->
                 [period |-> periods[i],
                  average |-> Avg(Group(rows, attr, periods[i]))]])

----------------------------------------------------------------------------
(* The account's own read methods.  check_validity and get_balance call    *)
(* get_transactions, count_transactions and sum_transactions, which this   *)
(* revision of accounts.py does not define: they are taken from the        *)
(* specification (the full ledger by date, ties in insertion order; the    *)
(* number of records; the signed sum, primary minus secondary, rounded).   *)

RECURSIVE get_transactions(_)
get_transactions(table) ==
    IF Len(table) <= 1 THEN table
    ELSE LET h == Head(table)
             rest == get_transactions(Tail(table))
             n == Cardinality({i \in 1..Len(rest) : rest[i].date < h.date})
         IN  SubSeq(rest, 1, n) \o <<h>> \o SubSeq(rest, n + 1, Len(rest))

count_transactions(table) == Len(table)

sum_transactions(table) ==
    Round2(SumCol(table, "deposit") - SumCol(table, "withdrawal"))

(* DebitAccount.get_balance / CreditAccount.get_balance.                   *)
get_balance(table) ==
    LET txs == get_transactions(table)
    IN  IF txs = <<>> THEN Raise("IndexError")
        ELSE Returned(txs[Len(txs)].balance)

(* Mutant: on a credit account, the first charge added to the first        *)
(* balance instead of taken off it.                                        *)
check_validity_charge_added(table, k) ==
    LET txs == get_transactions(table)
    IN  IF k = "debit" /\ count_transactions(table) = 0 THEN Returned(TRUE)
        ELSE IF txs = <<>> THEN Raise("IndexError")
        ELSE LET total_transactions == Round2(sum_transactions(table))
                 first_transaction == txs[1]
             IN  IF IsNone(first_transaction.deposit)
                    /\ IsNone(first_transaction.withdrawal)
                 THEN Raise("TypeError")
                 ELSE LET first_balance ==
                              IF ~IsNone(first_transaction.deposit)
                              THEN IF k = "credit"
                                   THEN first_transaction.balance
                                        + Val(first_transaction.deposit)
                                   ELSE first_transaction.balance
                                        - Val(first_transaction.deposit)
                              ELSE first_transaction.balance
                                   + Val(first_transaction.withdrawal)
                          last_balance == get_balance(table).val
                          diff_balance == Round2(last_balance - first_balance)
                      IN  Returned(total_transactions = diff_balance)

(* DebitAccount.check_validity / CreditAccount.check_validity: only the    *)
(* debit one tests for an empty account first.                             *)
check_validity(table, k) ==
    LET txs == get_transactions(table)
    IN  IF k = "debit" /\ count_transactions(table) = 0 THEN Returned(TRUE)
        ELSE IF txs = <<>> THEN Raise("IndexError")
        ELSE LET total_transactions == Round2(sum_transactions(table))
                 first_transaction == txs[1]
             IN  IF IsNone(first_transaction.deposit)
                    /\ IsNone(first_transaction.withdrawal)
                 THEN Raise("TypeError")
                 ELSE LET first_balance ==
                              IF ~IsNone(first_transaction.deposit)
                              THEN first_transaction.balance
                                   - Val(first_transaction.deposit)
                              ELSE first_transaction.balance
                                   + Val(first_transaction.withdrawal)
                          last_balance == get_balance(table).val
                          diff_balance == Round2(last_balance - first_balance)
                      IN  Returned(total_transactions = diff_balance)

----------------------------------------------------------------------------
(* find_possible_duplicates.  This revision of accounts.py does not define *)
(* it: it is taken from the specification, as a scan over the pairs of     *)
(* stored records that reports, by their positions, those that agree on    *)
(* date, balance and both amounts, and then removes from the store the     *)
(* records the user chose, if the user confirmed.                          *)

same_transaction(r, o) ==
    /\ r.date = o.date
    /\ r.balance = o.balance
    /\ r.deposit = o.deposit
    /\ r.withdrawal = o.withdrawal

(* Mutant: every record compared with every other, before it and after it. *)
find_possible_duplicates_twice(table) ==
    LET n == Len(table)
        RECURSIVE Scan(_, _)
        Scan(i, j) ==
            IF i > n THEN <<>>
            ELSE IF j > n THEN Scan(i + 1, 1)
            ELSE (IF i # j /\ same_transaction(table[i], table[j])
                  THEN << <<i, j>> >> ELSE <<>>) \o Scan(i, j + 1)
    IN  Scan(1, 1)

find_possible_duplicates(table) ==
    LET n == Len(table)
        RECURSIVE Scan(_, _)
        Scan(i, j) ==
            IF i > n THEN <<>>
            ELSE IF j > n THEN Scan(i + 1, i + 2)
            ELSE (IF same_transaction(table[i], table[j])
                  THEN << <<i, j>> >> ELSE <<>>) \o Scan(i, j + 1)
    IN  Scan(1, 2)

(* The table without the records at the chosen positions.                  *)
RECURSIVE remove_transactions(_, _)
remove_transactions(table, chosen) ==
    IF table = <<>> THEN <<>>
    ELSE remove_transactions(SubSeq(table, 1, Len(table) - 1), chosen)
         \o (IF Len(table) \in chosen THEN <<>> ELSE <<table[Len(table)]>>)

----------------------------------------------------------------------------
(* The record of the last call: its name, its arguments, what it returned  *)
(* or raised, and the builder's query as it was when the call was made.    *)

Call(op, args, out, before) ==
    [op |-> op, args |-> args, val |-> out.val, raised |-> out.raised,
     before |-> before]

NoCall == Call("none", <<>>, Returned(None), <<>>)

(* The categories file and the Category objects made from it.              *)
YamlFile ==
    [n \in {"food", "misc"} |->
        IF n = "food" THEN << <<"a">>, <<"b", "c">> >> ELSE << >>]

(* yaml.dump writes the mapping with its keys sorted and safe_load reads   *)
(* them back in file order: the category names in the order                *)
(* get_all_categories lists them.                                          *)
SortedNames == <<"food", "misc", "zoo">>

get_all_categories(file) == SelectSeq(SortedNames, LAMBDA n : n \in DOMAIN file)

In(keyword, list) == \E i \in 1..Len(list) : list[i] = keyword

(* The mapping with one entry set, and with one entry deleted.             *)
Put(file, name, list) ==
    [n \in DOMAIN file \cup {name} |-> IF n = name THEN list ELSE file[n]]

Del(file, name) == [n \in DOMAIN file \ {name} |-> file[n]]

(* Category.__init__: the object, and the file after the constructor: a    *)
(* name the file does not hold is written to it with no keywords.          *)
Category(file, name) ==
    [name |-> name,
     keywords |-> IF name \in DOMAIN file THEN file[name] ELSE <<>>]

Category_file(file, name) ==
    IF name \in DOMAIN file THEN file ELSE Put(file, name, <<>>)

(* The objects made, in order, from every name of a file.                  *)
Loaded(file) ==
    LET names == get_all_categories(file)
    IN  [i \in 1..Len(names) |-> Category(file, names[i])]

(* The loop over sub_categories of add_keywords / remove_keywords: the     *)
(* error of the first name that is unknown or is the category itself, and  *)
(* otherwise the keywords of the subcategories, in order, that are not     *)
(* (add: wanted = FALSE) or are (remove: wanted = TRUE) in self.keywords.  *)
RECURSIVE SubKeywords(_, _, _, _)
SubKeywords(self, file, sub_categories, wanted) ==
    IF sub_categories = <<>> THEN [raised |-> "none", list |-> <<>>]
    ELSE LET sub_category == Head(sub_categories)
         IN  IF sub_category \notin DOMAIN file
             THEN [raised |-> "KeyError", list |-> <<>>]
             ELSE IF sub_category = self.name
             THEN [raised |-> "ValueError", list |-> <<>>]
             ELSE LET rest == SubKeywords(self, file, Tail(sub_categories), wanted)
                      mine == SelectSeq(file[sub_category],
                                  LAMBDA k : In(k, self.keywords) = wanted)
                  IN  [raised |-> rest.raised, list |-> mine \o rest.list]

(* What a method of a Category leaves behind: the error it raised, the     *)
(* object's keywords and the file.                                         *)
Outcome(raised, keywords, file) ==
    [raised |-> raised, keywords |-> keywords, file |-> file]

(* Mutant: a category accepted as its own subcategory.                     *)
add_keywords_self(self, file, keywords, sub_categories) ==
    LET own == SelectSeq(keywords, LAMBDA k : ~In(k, self.keywords))
        known == SelectSeq(sub_categories, LAMBDA n : n \in DOMAIN file)
        RECURSIVE All(_)
        All(subs) ==
            IF subs = <<>> THEN <<>>
            ELSE SelectSeq(file[Head(subs)], LAMBDA k : ~In(k, self.keywords))
                 \o All(Tail(subs))
        keywords_to_add == own \o All(known)
    IN  IF known # sub_categories
        THEN Outcome("KeyError", self.keywords, file)
        ELSE Outcome("none", self.keywords \o keywords_to_add,
                     Put(file, self.name,
                         (IF self.name \in DOMAIN file THEN file[self.name]
                          ELSE <<>>) \o keywords_to_add))

(* Category.add_keywords.                                                  *)
add_keywords(self, file, keywords, sub_categories) ==
    LET own == SelectSeq(keywords, LAMBDA k : ~In(k, self.keywords))
        subs == SubKeywords(self, file, sub_categories, FALSE)
        keywords_to_add == own \o subs.list
    IN  IF subs.raised # "none"
        THEN Outcome(subs.raised, self.keywords, file)
        ELSE Outcome("none", self.keywords \o keywords_to_add,
                     Put(file, self.name,
                         (IF self.name \in DOMAIN file THEN file[self.name]
                          ELSE <<>>) \o keywords_to_add))

(* list.remove(x): the list without the first x.                           *)
list_remove(list, x) ==
    LET i == CHOOSE j \in 1..Len(list) :
                 list[j] = x /\ \A h \in 1..(j - 1) : list[h] # x
    IN  SubSeq(list, 1, i - 1) \o SubSeq(list, i + 1, Len(list))

(* `for keyword in keywords_to_remove: self.keywords.remove(keyword)`:     *)
(* remove raises ValueError on a keyword that is no longer in the list,    *)
(* and what was removed before stays removed.                              *)
RECURSIVE RemoveEach(_, _)
RemoveEach(list, keywords_to_remove) ==
    IF keywords_to_remove = <<>> THEN [raised |-> "none", list |-> list]
    ELSE IF ~In(Head(keywords_to_remove), list)
    THEN [raised |-> "ValueError", list |-> list]
    ELSE RemoveEach(list_remove(list, Head(keywords_to_remove)),
                    Tail(keywords_to_remove))

(* Category.remove_keywords.                                               *)
remove_keywords(self, file, keywords, sub_categories) ==
    LET own == SelectSeq(keywords, LAMBDA k : In(k, self.keywords))
        subs == SubKeywords(self, file, sub_categories, TRUE)
        keywords_to_remove == own \o subs.list
        removed == RemoveEach(self.keywords, keywords_to_remove)
    IN  IF subs.raised # "none"
        THEN Outcome(subs.raised, self.keywords, file)
        ELSE IF removed.raised # "none"
        THEN Outcome(removed.raised, removed.list, file)
        ELSE IF self.name \notin DOMAIN file
        THEN Outcome("KeyError", removed.list, file)
        ELSE Outcome("none", removed.list,
                     Put(file, self.name,
                         SelectSeq(file[self.name],
                             LAMBDA k : ~In(k, keywords_to_remove))))

(* Category.delete_category: a name the file does not hold is reported     *)
(* and nothing else is done; otherwise the entry is deleted and the        *)
(* object loses its attributes.                                            *)
delete_category(self, file) ==
    IF self.name \notin DOMAIN file
    THEN [found |-> FALSE, file |-> file]
    ELSE [found |-> TRUE, file |-> Del(file, self.name)]

----------------------------------------------------------------------------
(* The data directory.  DebitAccount keeps the table of the account `name` *)
(* in debit/<name>.db and CreditAccount in credit/<name>.db; a path is the *)
(* pair of its folder and the name, "." being the data directory itself.   *)

DbPath(k, n) == <<k, n>>

(* The path delete_account looks at: DebitAccount's is the one its         *)
(* constructor uses, CreditAccount's is <name>.db in the data directory.   *)
DeletePath(k, n) == IF k = "debit" THEN <<"debit", n>> ELSE <<".", n>>

(* DebitAccount.__init__ / CreditAccount.__init__: the error raised, and   *)
(* the directory after the call: create_all makes the file of a new        *)
(* account, with an empty table.                                           *)
Account(dir, k, n, create) ==
    LET db_path == DbPath(k, n)
    IN  IF db_path \notin DOMAIN dir /\ ~create
        THEN [raised |-> "FileNotFoundError", files |-> dir]
        ELSE IF create /\ db_path \in DOMAIN dir
        THEN [raised |-> "FileExistsError", files |-> dir]
        ELSE [raised |-> "none",
              files |-> IF db_path \in DOMAIN dir THEN dir
                        ELSE Put(dir, db_path, <<>>)]

(* DebitAccount.delete_account / CreditAccount.delete_account: the         *)
(* directory after the call, `typed` being what the user answered.         *)
delete_account(dir, k, n, typed) ==
    LET db_path == DeletePath(k, n)
    IN  IF db_path \notin DOMAIN dir THEN dir
        ELSE IF typed = n THEN Del(dir, db_path)
        ELSE dir

(* session.commit(): the table of the account in use, written to its file. *)
Commit(dir, k, n, table) ==
    IF ~IsNone(n) /\ DbPath(k, Val(n)) \in DOMAIN dir
    THEN [dir EXCEPT ![DbPath(k, Val(n))] = table]
    ELSE dir

(* A directory that holds one account.                                     *)
OneAccount(k, n, table) == [p \in {DbPath(k, n)} |-> table]

----------------------------------------------------------------------------
(* get_transactions_with_no_category: one filter_description(category,     *)
(* invert=True) per name of the file, each on a Category made for it, and  *)
(* then transactions().                                                    *)

(* Mutant: the loop left after the first category.                        *)
FilterOutFirstCategory(q, file, names) ==
    IF names = <<>> THEN q
    ELSE filter_description(q,
             [type |-> "Category", v |-> Category(file, Head(names)).keywords],
             TRUE)

RECURSIVE FilterOutCategories(_, _, _)
FilterOutCategories(q, file, names) ==
    IF names = <<>> THEN q
    ELSE FilterOutCategories(
             filter_description(q,
                 [type |-> "Category", v |-> Category(file, Head(names)).keywords],
                 TRUE),
             file, Tail(names))

get_transactions_with_no_category(table, q, file) ==
    transactions(table, FilterOutCategories(q, file, get_all_categories(file)),
                 FALSE, FALSE, FALSE, TRUE)

----------------------------------------------------------------------------
(* Inputs of the store operations.                                         *)

Dates == {0, 1, 2}
AmountPairs == {<<Some(100), None>>, <<Some(4), None>>, <<None, Some(30)>>}
Balances == {70, 100}

Rows ==
    {Row(<<"a">>, d, p[1], p[2], b) : d \in Dates, p \in AmountPairs, b \in Balances}
    \cup {Row(<<"a">>, 0, None, None, 100)}

FileRows ==
    {Row(<<"a">>, 0, Some(100), None, 100),
     Row(<<"a">>, 1, Some(100), None, 100),
     Row(<<"a">>, 2, None, Some(30), 70)}

Files ==
    {<<a, b>> : a \in FileRows, b \in FileRows}
    \cup {<<a, b, c>> : a \in FileRows, b \in FileRows, c \in FileRows}

RECURSIVE AddAll(_, _)
AddAll(table, rows) ==
    IF rows = <<>> THEN table
    ELSE AddAll(add_transaction(table, Head(rows)), Tail(rows))

----------------------------------------------------------------------------
(* Store operations.  add_data is single-threaded: while its loop runs,    *)
(* nothing else does.                                                      *)

AddTransaction(r) ==
    /\ batch = <<>>
    /\ Len(add_transaction(store, r)) <= MaxStore
    /\ store' = add_transaction(store, r)
    /\ files' = Commit(files, kind, account_name, store')
    /\ result' = Call("_add_transaction", <<r>>, Returned(None), query)
    /\ UNCHANGED <<account_name, kind, batch, loading, catVars,
                   builderVars, pdfVars>>

(* add_data: _load_csv_data, then the first step of _update_db_from_data.  *)
AddData(file) ==
    /\ batch = <<>>
    /\ Len(AddAll(store, file)) <= MaxStore
    /\ batch' = load_csv_data(file)
    /\ loading' = Some([file |-> file, found |-> store])
    /\ result' = Call("add_data", <<file>>, Returned(None), query)
    /\ UNCHANGED <<accountVars, kind, store, catVars, builderVars, pdfVars>>

(* One iteration of the loop of _update_db_from_data: one                  *)
(* _add_transaction, committed.                                            *)
UpdateDbFromData ==
    /\ batch # <<>>
    /\ store' = add_transaction(store, Head(batch))
    /\ batch' = Tail(batch)
    /\ loading' = IF Tail(batch) = <<>> THEN None ELSE loading
    /\ files' = Commit(files, kind, account_name, store')
    /\ result' = Call("_add_transaction", <<Head(batch)>>, Returned(None), query)
    /\ UNCHANGED <<account_name, kind, catVars, builderVars, pdfVars>>

(* The process ends while the loop of _update_db_from_data runs, between   *)
(* two commits: what was committed is in the file, the rest of the frame   *)
(* is lost with the process, and the account is opened again.              *)
Interrupt ==
    /\ ~IsNone(loading)
    /\ batch' = <<>>
    /\ loading' = None
    /\ result' = Call("interrupt", <<Val(loading).file, Val(loading).found>>,
                      Returned(None), query)
    /\ UNCHANGED <<accountVars, kind, store, catVars, builderVars, pdfVars>>

CheckValidity ==
    /\ batch = <<>>
    /\ result' = Call("check_validity", <<>>, check_validity(store, kind), query)
    /\ UNCHANGED <<accountVars, kind, storeVars, catVars,
                   builderVars, pdfVars>>

GetBalance ==
    /\ batch = <<>>
    /\ result' = Call("get_balance", <<>>, get_balance(store), query)
    /\ UNCHANGED <<accountVars, kind, storeVars, catVars,
                   builderVars, pdfVars>>

(* Terminal operations of the builder, called with their default           *)
(* arguments.                                                              *)
Count ==
    /\ batch = <<>>
    /\ result' = Call("count", <<>>,
                      IF ~IsNone(group_by_attr)
                      THEN Returned(count_grouped(store, query, Val(group_by_attr)))
                      ELSE Returned(count(store, query)), query)
    /\ UNCHANGED <<accountVars, kind, storeVars, catVars,
                   builderVars, pdfVars>>

Sum ==
    /\ batch = <<>>
    /\ result' = Call("sum", <<>>,
                      IF ~IsNone(group_by_attr)
                      THEN Returned(sum_grouped(store, query, kind,
                                                Val(group_by_attr)))
                      ELSE Returned(sum(store, query, kind)), query)
    /\ UNCHANGED <<accountVars, kind, storeVars, catVars,
                   builderVars, pdfVars>>

Average ==
    /\ batch = <<>>
    /\ result' = Call("average", <<>>,
                      IF ~IsNone(group_by_attr)
                      THEN average_grouped(store, query, kind, Val(group_by_attr))
                      ELSE average(store, query, kind), query)
    /\ UNCHANGED <<accountVars, kind, storeVars, catVars,
                   builderVars, pdfVars>>

----------------------------------------------------------------------------
(* The account: single inserts, batch loads, the validity check and the    *)
(* aggregates of a fresh builder (account.query()).                        *)

Init ==
    /\ kind \in Kinds
    /\ store = <<>>
    /\ batch = <<>>
    /\ loading = None
    /\ yaml = YamlFile
    /\ cats = Loaded(YamlFile)
    /\ query = <<>>
    /\ group_by_attr = None
    /\ result = NoCall
    /\ pc = "idle"
    /\ balance_col = <<>>
    /\ df = <<>>
    /\ account_name = Some("x")
    /\ files = OneAccount(kind, "x", store)

Next ==
    \/ \E r \in Rows : AddTransaction(r)
    \/ \E file \in Files : AddData(file)
    \/ UpdateDbFromData
    \/ CheckValidity
    \/ Count
    \/ Sum
    \/ Average

Spec == Init /\ [][Next]_vars


----------------------------------------------------------------------------
(* Inputs of the builder: the ledgers a query runs on and the arguments of *)
(* its filter methods.                                                     *)

QueryRows ==
    {Row(<<"a", "b", "c">>, 0, Some(100), None, 100),
     Row(<<"c", "b">>, 2, None, Some(30), 70),
     Row(<<"c", "a">>, 4, Some(4), None, 74),
     Row(<<"b", "c">>, 2, None, None, 70),
     Row(<<"b">>, 0, Some(30), Some(100), 0)}

Ledgers ==
    {<<>>} \cup {AddAll(<<>>, <<a>>) : a \in QueryRows}
    \cup {AddAll(<<>>, <<a, b>>) : a \in QueryRows, b \in QueryRows}

DateArgs == {None, Some(2)}
MinAmountArgs == {None, Some(30), Some(50)}
MaxAmountArgs == {None, Some(30)}

DescriptionArgs ==
    {[type |-> "None", v |-> <<>>],
     [type |-> "str", v |-> << <<"a">> >>],
     [type |-> "str", v |-> << <<"b", "c">> >>],
     [type |-> "list", v |-> << <<"c", "b">>, <<"a">> >>]}
    \cup {[type |-> "Category", v |-> cats[i].keywords] : i \in DOMAIN cats}

----------------------------------------------------------------------------
(* The builder's filter methods as operations: each returns the builder.   *)

Filter(op, args, q) ==
    /\ batch = <<>>
    /\ Len(q) <= MaxFilters
    /\ query' = q
    /\ result' = Call(op, args, Returned("self"), query)
    /\ UNCHANGED <<accountVars, kind, storeVars, catVars,
                   group_by_attr, pdfVars>>

FilterDeposits(include) ==
    Filter("filter_deposits", <<include>>, filter_deposits(query, kind, include))

FilterWithdrawals(include) ==
    Filter("filter_withdrawals", <<include>>,
           filter_withdrawals(query, kind, include))

FilterCharges(include) ==
    Filter("filter_charges", <<include>>, filter_charges(query, kind, include))

FilterPayments(include) ==
    Filter("filter_payments", <<include>>, filter_payments(query, kind, include))

FilterDateRange(date_start, date_end, invert) ==
    Filter("filter_date_range", <<date_start, date_end, invert>>,
           filter_date_range(query, date_start, date_end, invert))

FilterDescription(description_contains, invert) ==
    Filter("filter_description", <<description_contains, invert>>,
           filter_description(query, description_contains, invert))

FilterAmount(min_amount, max_amount, invert) ==
    Filter("filter_amount", <<min_amount, max_amount, invert>>,
           filter_amount(query, min_amount, max_amount, invert))

(* A builder over an account that already holds a ledger.                  *)
InitQuery ==
    /\ kind \in Kinds
    /\ store \in Ledgers
    /\ batch = <<>>
    /\ loading = None
    /\ yaml = YamlFile
    /\ cats = Loaded(YamlFile)
    /\ query = <<>>
    /\ group_by_attr = None
    /\ result = NoCall
    /\ pc = "idle"
    /\ balance_col = <<>>
    /\ df = <<>>
    /\ account_name = Some("x")
    /\ files = OneAccount(kind, "x", store)

(* Queries by transaction kind and by date.                                *)
NextFilter ==
    \/ \E include \in BOOLEAN : FilterDeposits(include)
    \/ \E include \in BOOLEAN : FilterWithdrawals(include)
    \/ \E include \in BOOLEAN : FilterCharges(include)
    \/ \E include \in BOOLEAN : FilterPayments(include)
    \/ \E date_start \in DateArgs, date_end \in DateArgs, invert \in BOOLEAN :
          FilterDateRange(date_start, date_end, invert)
    \/ Count
    \/ Sum
    \/ Average

SpecFilter == InitQuery /\ [][NextFilter]_vars

(* Queries by description.                                                 *)
NextDescription ==
    \/ \E d \in DescriptionArgs, invert \in BOOLEAN : FilterDescription(d, invert)
    \/ Count
    \/ Sum
    \/ Average

SpecDescription == InitQuery /\ [][NextDescription]_vars

(* Queries by amount.                                                      *)
NextAmount ==
    \/ \E min_amount \in MinAmountArgs, max_amount \in MaxAmountArgs,
          invert \in BOOLEAN : FilterAmount(min_amount, max_amount, invert)
    \/ Count
    \/ Sum
    \/ Average

SpecAmount == InitQuery /\ [][NextAmount]_vars

----------------------------------------------------------------------------
(* Ordered listings.  transactions() is a step of the builder like the     *)
(* filters: what it adds to self.query stays there.                        *)

Transactions(as_list, order_by_amount, order_by_description, ascending) ==
    LET out == transactions(store, query, as_list, order_by_amount,
                            order_by_description, ascending)
    IN  /\ batch = <<>>
        /\ Len(out.query) <= MaxFilters
        /\ query' = out.query
        /\ result' = Call("transactions",
                          <<as_list, order_by_amount, order_by_description,
                            ascending>>, out, query)
        /\ UNCHANGED <<accountVars, kind, storeVars, catVars,
                       group_by_attr, pdfVars>>

NextOrder ==
    \/ FilterDeposits(FALSE)
    \/ FilterPayments(FALSE)
    \/ \E as_list \in BOOLEAN, order_by_amount \in BOOLEAN,
          order_by_description \in BOOLEAN, ascending \in BOOLEAN :
          Transactions(as_list, order_by_amount, order_by_description, ascending)
    \/ Count
    \/ Sum
    \/ Average

SpecOrder == InitQuery /\ [][NextOrder]_vars

----------------------------------------------------------------------------
(* Grouped aggregates, over ledgers spread over the calendar.              *)

Date(day, tick) == day * TicksPerDay + tick

Jan1 == DaysBefore(EpochYear, 1)
Jan2 == Jan1 + 1
Feb1 == DaysBefore(EpochYear, 2)
NextJan1 == Jan1 + DaysInEpochYear

GroupRows ==
    {Row(<<"a">>, Date(Jan1, 0), Some(100), None, 100),
     Row(<<"a">>, Date(Jan1, 1), Some(4), None, 104),
     Row(<<"a">>, Date(Jan2, 0), None, Some(6), 98),
     Row(<<"a">>, Date(Feb1, 1), None, Some(30), 68),
     Row(<<"a">>, Date(NextJan1, 0), Some(4), None, 72)}

RECURSIVE RowLists(_)
RowLists(n) ==
    IF n = 0 THEN {<<>>}
    ELSE RowLists(n - 1)
         \cup {Append(l, r) : l \in RowLists(n - 1), r \in GroupRows}

GroupLedgers == {AddAll(<<>>, l) : l \in RowLists(MaxStore)}

PeriodArgs == Periods \cup {"hour"}

GroupBy(period) ==
    LET out == group_by(group_by_attr, period)
    IN  /\ batch = <<>>
        /\ group_by_attr' = out.group_by_attr
        /\ result' = Call("group_by", <<period>>,
                          IF out.raised = "none" THEN Returned("self")
                          ELSE Raise(out.raised), query)
        /\ UNCHANGED <<accountVars, kind, storeVars, catVars, query, pdfVars>>

InitGroup ==
    /\ kind \in Kinds
    /\ store \in GroupLedgers
    /\ batch = <<>>
    /\ loading = None
    /\ yaml = YamlFile
    /\ cats = Loaded(YamlFile)
    /\ query = <<>>
    /\ group_by_attr = None
    /\ result = NoCall
    /\ pc = "idle"
    /\ balance_col = <<>>
    /\ df = <<>>
    /\ account_name = Some("x")
    /\ files = OneAccount(kind, "x", store)

NextGroup ==
    \/ \E include \in BOOLEAN : FilterDeposits(include)
    \/ \E include \in BOOLEAN : FilterWithdrawals(include)
    \/ \E include \in BOOLEAN : FilterCharges(include)
    \/ \E include \in BOOLEAN : FilterPayments(include)
    \/ \E period \in PeriodArgs : GroupBy(period)
    \/ Count
    \/ Sum
    \/ Average

SpecGroup == InitGroup /\ [][NextGroup]_vars

----------------------------------------------------------------------------
(* Uncategorised transactions, over the category files the program can     *)
(* leave behind.                                                           *)

Registries ==
    {[n \in {} |-> <<>>],
     YamlFile,
     [n \in {"misc"} |-> <<>>],
     [n \in {"food", "misc", "zoo"} |->
         CASE n = "food" -> << <<"a">> >>
           [] n = "misc" -> <<>>
           [] n = "zoo" -> << <<"c", "b">>, <<"a">> >>]}

StrArgs ==
    {[type |-> "str", v |-> << <<"b">> >>], [type |-> "str", v |-> << <<"c">> >>]}

(* The loop makes a Category for each name of the file, all of them in it, *)
(* and keeps none: the file and the live objects stay as they are.         *)
GetTransactionsWithNoCategory ==
    LET out == get_transactions_with_no_category(store, query, yaml)
    IN  /\ batch = <<>>
        /\ Len(query) < MaxFilters
        /\ query' = out.query
        /\ result' = Call("get_transactions_with_no_category", <<>>, out, query)
        /\ UNCHANGED <<accountVars, kind, storeVars, catVars,
                       group_by_attr, pdfVars>>

InitUncategorized ==
    /\ kind \in Kinds
    /\ store \in Ledgers
    /\ batch = <<>>
    /\ loading = None
    /\ yaml \in Registries
    /\ cats = <<>>
    /\ query = <<>>
    /\ group_by_attr = None
    /\ result = NoCall
    /\ pc = "idle"
    /\ balance_col = <<>>
    /\ df = <<>>
    /\ account_name = Some("x")
    /\ files = OneAccount(kind, "x", store)

NextUncategorized ==
    \/ \E d \in StrArgs, invert \in BOOLEAN : FilterDescription(d, invert)
    \/ GetTransactionsWithNoCategory
    \/ Count

SpecUncategorized == InitUncategorized /\ [][NextUncategorized]_vars

----------------------------------------------------------------------------
(* The categories: objects are made, changed and deleted.                  *)

CategoryFile ==
    [n \in {"food", "misc"} |-> IF n = "food" THEN << <<"a">> >> ELSE << >>]

CategoryNames == {"food", "misc"}

KeywordArgs == {<<>>, << <<"z">> >>, << <<"z">>, <<"z">> >>}

SubCategoryArgs == {<<>>, <<"misc">>, <<"misc", "food">>}

NewCategory(name) ==
    /\ Len(cats) < MaxObjects
    /\ cats' = Append(cats, Category(yaml, name))
    /\ yaml' = Category_file(yaml, name)
    /\ result' = Call("Category", <<name>>, Returned(None), <<>>)
    /\ UNCHANGED <<accountVars, kind, storeVars, builderVars, pdfVars>>

(* What a method call on the object cats[i] leaves behind.                 *)
Changed(op, i, keywords, sub_categories, out) ==
    /\ Len(out.keywords) <= MaxKeywords
    /\ \A n \in DOMAIN out.file : Len(out.file[n]) <= MaxKeywords
    /\ cats' = [cats EXCEPT ![i].keywords = out.keywords]
    /\ yaml' = out.file
    /\ result' = Call(op, <<i, keywords, sub_categories>>,
                      IF out.raised = "none" THEN Returned(None)
                      ELSE Raise(out.raised), <<>>)
    /\ UNCHANGED <<accountVars, kind, storeVars, builderVars, pdfVars>>

AddKeywords(i, keywords, sub_categories) ==
    Changed("add_keywords", i, keywords, sub_categories,
            add_keywords(cats[i], yaml, keywords, sub_categories))

RemoveKeywords(i, keywords, sub_categories) ==
    Changed("remove_keywords", i, keywords, sub_categories,
            remove_keywords(cats[i], yaml, keywords, sub_categories))

(* After a deletion the object has no attributes left: it is gone.         *)
DeleteCategory(i) ==
    LET out == delete_category(cats[i], yaml)
    IN  /\ yaml' = out.file
        /\ cats' = IF out.found
                   THEN SubSeq(cats, 1, i - 1) \o SubSeq(cats, i + 1, Len(cats))
                   ELSE cats
        /\ result' = Call("delete_category", <<i>>, Returned(None), <<>>)
        /\ UNCHANGED <<accountVars, kind, storeVars, builderVars, pdfVars>>

InitCategory ==
    /\ kind = "debit"
    /\ store = <<>>
    /\ batch = <<>>
    /\ loading = None
    /\ yaml = CategoryFile
    /\ cats = <<>>
    /\ query = <<>>
    /\ group_by_attr = None
    /\ result = NoCall
    /\ pc = "idle"
    /\ balance_col = <<>>
    /\ df = <<>>
    /\ account_name = Some("x")
    /\ files = OneAccount(kind, "x", store)

(* Categories whose keywords change.                                       *)
NextKeywords ==
    \/ \E name \in CategoryNames : NewCategory(name)
    \/ \E i \in DOMAIN cats, keywords \in KeywordArgs,
          sub_categories \in SubCategoryArgs :
          AddKeywords(i, keywords, sub_categories)
    \/ \E i \in DOMAIN cats, keywords \in KeywordArgs,
          sub_categories \in SubCategoryArgs :
          RemoveKeywords(i, keywords, sub_categories)

SpecKeywords == InitCategory /\ [][NextKeywords]_vars

(* Categories that are deleted as well, and made again.                    *)
NextCategory ==
    \/ \E name \in CategoryNames : NewCategory(name)
    \/ \E i \in DOMAIN cats, keywords \in KeywordArgs,
          sub_categories \in SubCategoryArgs :
          AddKeywords(i, keywords, sub_categories)
    \/ \E i \in DOMAIN cats, keywords \in KeywordArgs,
          sub_categories \in SubCategoryArgs :
          RemoveKeywords(i, keywords, sub_categories)
    \/ \E i \in DOMAIN cats : DeleteCategory(i)

SpecCategory == InitCategory /\ [][NextCategory]_vars

----------------------------------------------------------------------------
(* The accounts of the data directory: made, opened, filled and deleted.   *)

AccountNames == {"x", "y"}

(* What the user types when asked to confirm.                              *)
TypedArgs == AccountNames \cup {""}

AccountRows == {Row(<<"a">>, 0, Some(100), None, 100)}

(* DebitAccount(name, create) / CreditAccount(name, create): when the      *)
(* constructor returns, the new object is the one in use.                  *)
OpenAccount(k, n, create) ==
    LET out == Account(files, k, n, create)
    IN  /\ batch = <<>>
        /\ files' = out.files
        /\ IF out.raised = "none"
           THEN /\ account_name' = Some(n)
                /\ kind' = k
                /\ store' = out.files[DbPath(k, n)]
           ELSE UNCHANGED <<account_name, kind, store>>
        /\ result' = Call("Account", <<k, n, create>>,
                          IF out.raised = "none" THEN Returned(None)
                          ELSE Raise(out.raised), <<>>)
        /\ UNCHANGED <<batch, loading, catVars, builderVars, pdfVars>>

(* cls.delete_account(name).  An object whose file is removed is not used  *)
(* again.                                                                  *)
DeleteAccount(k, n, typed) ==
    /\ batch = <<>>
    /\ files' = delete_account(files, k, n, typed)
    /\ IF ~IsNone(account_name) /\ DbPath(kind, Val(account_name)) \notin DOMAIN files'
       THEN account_name' = None /\ store' = <<>>
       ELSE UNCHANGED <<account_name, store>>
    /\ result' = Call("delete_account", <<k, n, typed>>, Returned(None), <<>>)
    /\ UNCHANGED <<kind, batch, loading, catVars, builderVars, pdfVars>>

InitAccount ==
    /\ kind = "debit"
    /\ store = <<>>
    /\ batch = <<>>
    /\ loading = None
    /\ yaml = YamlFile
    /\ cats = Loaded(YamlFile)
    /\ query = <<>>
    /\ group_by_attr = None
    /\ result = NoCall
    /\ pc = "idle"
    /\ balance_col = <<>>
    /\ df = <<>>
    /\ account_name = None
    /\ files = <<>>

NextAccount ==
    \/ \E k \in Kinds, n \in AccountNames, create \in BOOLEAN : OpenAccount(k, n, create)
    \/ \E k \in Kinds, n \in AccountNames, typed \in TypedArgs :
          DeleteAccount(k, n, typed)
    \/ \E r \in AccountRows : ~IsNone(account_name) /\ AddTransaction(r)

SpecAccount == InitAccount /\ [][NextAccount]_vars

----------------------------------------------------------------------------
(* Possible duplicates: records that differ in their description, or in    *)
(* one other field, are inserted and the store is scanned.                 *)

DuplicateRows ==
    {Row(<<"a">>, 0, Some(100), None, 100),
     Row(<<"b">>, 0, Some(100), None, 100),
     Row(<<"c">>, 0, Some(100), None, 100),
     Row(<<"b">>, 1, Some(100), None, 100),
     Row(<<"b">>, 0, None, Some(100), 100),
     Row(<<"b">>, 0, Some(100), Some(30), 100),
     Row(<<"b">>, 0, Some(100), None, 70)}

(* The positions the scan reported.                                        *)
Candidates(pairs) ==
    {pairs[k][1] : k \in DOMAIN pairs} \cup {pairs[k][2] : k \in DOMAIN pairs}

(* The user is shown the pairs, chooses among their records and confirms   *)
(* the removal or does not.                                                *)
FindPossibleDuplicates(confirm, chosen) ==
    LET pairs == find_possible_duplicates(store)
    IN  /\ batch = <<>>
        /\ chosen \subseteq Candidates(pairs)
        /\ store' = IF confirm THEN remove_transactions(store, chosen) ELSE store
        /\ files' = Commit(files, kind, account_name, store')
        /\ result' = Call("find_possible_duplicates", <<confirm, chosen>>,
                          Returned(pairs), store)
        /\ UNCHANGED <<account_name, kind, batch, loading, catVars,
                       builderVars, pdfVars>>

NextDuplicates ==
    \/ \E r \in DuplicateRows : AddTransaction(r)
    \/ \E confirm \in BOOLEAN, chosen \in SUBSET (1..Len(store)) :
          FindPossibleDuplicates(confirm, chosen)
    \/ CheckValidity
    \/ Count

SpecDuplicates == Init /\ [][NextDuplicates]_vars

----------------------------------------------------------------------------
(* The account and its builder together: every operation that reads the    *)
(* store, and the inserts.  Two of the rows fall in the same second.       *)

RecordRows ==
    {Row(<<"a">>, 0, Some(100), None, 100),
     Row(<<"a">>, 1, Some(100), None, 100),
     Row(<<"b">>, TicksPerSecond, None, Some(30), 70)}

RecordFiles ==
    {<<Row(<<"b">>, TicksPerSecond, None, Some(30), 70),
       Row(<<"a">>, 1, Some(100), None, 100)>>}

NextRecords ==
    \/ \E r \in RecordRows : AddTransaction(r)
    \/ \E file \in RecordFiles : AddData(file)
    \/ UpdateDbFromData
    \/ CheckValidity
    \/ GetBalance
    \/ FilterDeposits(FALSE)
    \/ FilterWithdrawals(FALSE)
    \/ FilterCharges(FALSE)
    \/ FilterPayments(FALSE)
    \/ FilterDateRange(Some(TicksPerSecond), None, FALSE)
    \/ FilterDescription([type |-> "str", v |-> << <<"a">> >>], TRUE)
    \/ FilterAmount(Some(50), None, FALSE)
    \/ GroupBy("month")
    \/ Count
    \/ Sum
    \/ Average
    \/ Transactions(TRUE, TRUE, FALSE, FALSE)
    \/ GetTransactionsWithNoCategory

SpecRecords == Init /\ [][NextRecords]_vars

----------------------------------------------------------------------------
(* Batch loads that can be interrupted and run again.                      *)

NextBatch ==
    \/ \E r \in FileRows : AddTransaction(r)
    \/ \E file \in Files : AddData(file)
    \/ UpdateDbFromData
    \/ Interrupt
    \/ Count

SpecBatch == Init /\ [][NextBatch]_vars

----------------------------------------------------------------------------
(* Vocabulary of the properties of the store.                              *)

Records(table) == {table[i] : i \in 1..Len(table)}

Primary(r) == IF IsNone(r.deposit) THEN 0 ELSE Val(r.deposit)
Secondary(r) == IF IsNone(r.withdrawal) THEN 0 ELSE Val(r.withdrawal)

OneAmount(r) == IsNone(r.deposit) # IsNone(r.withdrawal)

Earliest(table) ==
    CHOOSE r \in Records(table) : \A o \in Records(table) : r.date <= o.date
Latest(table) ==
    CHOOSE r \in Records(table) : \A o \in Records(table) : o.date <= r.date

(* The balance before the first transaction, as the claims define it.      *)
BalanceBefore(r) ==
    IF ~IsNone(r.deposit) THEN r.balance - Val(r.deposit)
    ELSE r.balance + Val(r.withdrawal)

(* A ledger with distinct dates, one amount per record, and each balance   *)
(* the previous balance (by date) plus the deposit minus the withdrawal.   *)
Consistent(table) ==
    /\ table # <<>>
    /\ \A i, j \in 1..Len(table) : i # j => table[i].date # table[j].date
    /\ \A r \in Records(table) : OneAmount(r)
    /\ \A r, p \in Records(table) :
          (/\ p.date < r.date
           /\ ~\E o \in Records(table) : p.date < o.date /\ o.date < r.date)
          => r.balance = p.balance + Primary(r) - Secondary(r)

(* C1 as stated: after any insert, single or from a batch, the store holds *)
(* exactly one record with the inserted (description, date, amounts,       *)
(* balance), and no two stored records share an id.                        *)
C1_OneRecordPerTuple ==
    /\ \A i, j \in 1..Len(store) : store[i].id = store[j].id => i = j
    /\ result.op = "_add_transaction" =>
          Cardinality({i \in 1..Len(store) :
                          Tuple(store[i]) = Tuple(result.args[1])}) = 1

(* C3 as stated: check_validity returns true without error on an account   *)
(* with no transactions, debit or credit, and on a non-empty ledger it is   *)
(* true exactly when the rounded signed sum equals the rounded difference   *)
(* of the last balance and the balance before the first transaction.        *)
C3_CheckValidity ==
    result.op = "check_validity" =>
        IF store = <<>>
        THEN result.raised = "none" /\ result.val = TRUE
        ELSE (~IsNone(Earliest(store).deposit) \/ ~IsNone(Earliest(store).withdrawal))
             => /\ result.raised = "none"
                /\ result.val =
                     (Round2(SumCol(store, "deposit") - SumCol(store, "withdrawal"))
                      = Round2(Latest(store).balance - BalanceBefore(Earliest(store))))

(* C4 as stated: on a consistent debit ledger sum() is the last balance     *)
(* minus the balance before the first transaction.                          *)
C4_SumIsBalanceDelta ==
    (kind = "debit" /\ Consistent(store) /\ result.op = "sum") =>
        result.val = Latest(store).balance - BalanceBefore(Earliest(store))

(* C4 as amended: on a consistent debit ledger check_validity() is true,    *)
(* sum() is the last balance minus the balance before the first             *)
(* transaction rounded to 2 decimals, count() is the number of records and  *)
(* average() is sum()/count().                                              *)
C4_ConsistentLedger ==
    (kind = "debit" /\ Consistent(store)) =>
        LET delta == Latest(store).balance - BalanceBefore(Earliest(store))
        IN  /\ result.op = "check_validity" =>
                  result.raised = "none" /\ result.val = TRUE
            /\ result.op = "sum" => result.val = Round2(delta)
            /\ result.op = "count" => result.val = Len(store)
            /\ result.op = "average" =>
                  /\ result.raised = "none"
                  /\ result.val = TrueDiv(Round2(delta), Len(store))

(* The scenario of C4: deposit 100 then withdrawal 30 averages 35.          *)
C4_Witness ==
    /\ kind = "debit"
    /\ Consistent(store)
    /\ Len(store) = 2
    /\ Primary(Earliest(store)) = 100
    /\ Secondary(Latest(store)) = 30
    /\ Latest(store).balance = 70
    /\ result.op = "average"
    /\ result.val = [num |-> 35, den |-> 1]


----------------------------------------------------------------------------
(* Vocabulary of the properties of the builder.                            *)

(* The rows selected before the last call and after it.                    *)
Before == Matching(store, result.before)
After == Matching(store, query)

(* kw occurs in d: d is some prefix, then kw, then some suffix.            *)
IsSubstring(kw, d) ==
    \E n \in 0..Len(d) :
        /\ n + Len(kw) <= Len(d)
        /\ \A j \in 1..Len(kw) : d[n + j] = kw[j]

AnyKeyword(kws, d) == \E i \in 1..Len(kws) : IsSubstring(kws[i], d)

(* The one amount of a record that has exactly one.                        *)
TheAmount(r) == IF IsNone(r.deposit) THEN Val(r.withdrawal) ELSE Val(r.deposit)

InDateRange(r, lo, hi) ==
    /\ IsNone(lo) \/ r.date >= Val(lo)
    /\ IsNone(hi) \/ r.date <= Val(hi)

InAmountRange(a, lo, hi) ==
    /\ IsNone(lo) \/ a >= Val(lo)
    /\ IsNone(hi) \/ a <= Val(hi)

(* C2 as stated: ungrouped sum() is the sum of the primary amounts          *)
(* (deposit, charge) minus the sum of the secondary amounts (withdrawal,   *)
(* payment) of the matching records, nulls as 0, rounded to 2 decimals.    *)
C2_SignedSum ==
    result.op = "sum" =>
        result.val = Round2(SumCol(After, "deposit") - SumCol(After, "withdrawal"))

(* C5: ungrouped average() is sum()/count() when a record matches; when    *)
(* none does it raises and returns no number; the filters stay as they     *)
(* were.                                                                   *)
C5_Average ==
    result.op = "average" =>
        /\ query = result.before
        /\ IF After = <<>>
           THEN result.raised = "ValueError" /\ result.val = None
           ELSE /\ result.raised = "none"
                /\ result.val.den > 0
                /\ result.val.num * Len(After)
                     = result.val.den * sum(store, query, kind)

C5_Witness ==
    /\ result.op = "average"
    /\ result.raised = "ValueError"
    /\ store # <<>>
    /\ query # <<>>

(* C6: filter_deposits / filter_withdrawals on a debit query and           *)
(* filter_charges / filter_payments on a credit query keep, with           *)
(* include=False, exactly the matching records whose amount of that kind   *)
(* is null, and with include=True all of them; each returns the builder.   *)
C6_Field ==
    IF result.op \in {"filter_deposits", "filter_charges"}
    THEN "deposit" ELSE "withdrawal"

C6_FilterInclude ==
    (\/ kind = "debit" /\ result.op \in {"filter_deposits", "filter_withdrawals"}
     \/ kind = "credit" /\ result.op \in {"filter_charges", "filter_payments"})
    => /\ result.val = "self"
       /\ After = SelectSeq(Before,
                    LAMBDA r : result.args[1] \/ IsNone(r[C6_Field]))

C6_Witness ==
    /\ kind = "credit"
    /\ result.op = "filter_payments"
    /\ result.args = <<FALSE>>
    /\ After # <<>>
    /\ Len(After) < Len(Before)

(* C7: filter_date_range with a bound given keeps, with invert=False,      *)
(* exactly the records with start <= date <= end (each bound when given,   *)
(* inclusive), and with invert=True exactly the records the same call      *)
(* with invert=False drops.                                                *)
C7_DateRange ==
    (/\ result.op = "filter_date_range"
     /\ ~(IsNone(result.args[1]) /\ IsNone(result.args[2])))
    => After = SelectSeq(Before,
                 LAMBDA r : InDateRange(r, result.args[1], result.args[2])
                            # result.args[3])

C7_Witness ==
    /\ result.op = "filter_date_range"
    /\ result.args = <<Some(2), None, FALSE>>
    /\ \E i \in 1..Len(After) : After[i].date = 2
    /\ Len(After) < Len(Before)

C9_EmptyCategory ==
    (/\ result.op = "filter_description"
     /\ result.args[1].type = "Category"
     /\ result.args[1].v = <<>>)
    => IF result.args[2] THEN After = Before ELSE After = <<>>

(* C10: filter_amount with invert=False keeps a record that has exactly    *)
(* one amount a if and only if min <= a <= max (each bound when given),    *)
(* whichever of the two fields holds a.                                    *)
C10_Amount ==
    (result.op = "filter_amount" /\ result.args[3] = FALSE)
    => SelectSeq(After, OneAmount)
         = SelectSeq(Before,
             LAMBDA r : /\ OneAmount(r)
                        /\ InAmountRange(TheAmount(r), result.args[1],
                                         result.args[2]))

(* The scenario of C10: filter_amount(min=50) on a deposit of 100 and a    *)
(* withdrawal of 30 keeps the deposit alone.                               *)
C10_Witness ==
    /\ result.op = "filter_amount"
    /\ result.args = <<Some(50), None, FALSE>>
    /\ result.before = <<>>
    /\ Len(store) = 2
    /\ store[1].deposit = Some(100) /\ IsNone(store[1].withdrawal)
    /\ store[2].withdrawal = Some(30) /\ IsNone(store[2].deposit)
    /\ After = <<store[1]>>

----------------------------------------------------------------------------
(* Vocabulary of the properties of ordering and grouping.                  *)

(* What the filter calls made so far put into the query.                   *)
Filters(q) == SelectSeq(q, LAMBDA c : c.f \notin {"order_asc", "order_desc"})

TerminalOps == {"count", "sum", "average", "transactions"}

(* Two dates fall into the same day, week (Monday to Sunday, within one    *)
(* year), month or year.                                                   *)
SamePeriod(attr, d1, d2) ==
    CASE attr = "day" -> DayNumber(d1) = DayNumber(d2)
      [] attr = "week" ->
             /\ Year(d1) = Year(d2)
             /\ (DayNumber(d1) + DaysPerWeek - 1) \div DaysPerWeek
                  = (DayNumber(d2) + DaysPerWeek - 1) \div DaysPerWeek
      [] attr = "month" -> Year(d1) = Year(d2) /\ Month(d1) = Month(d2)
      [] attr = "year" -> Year(d1) = Year(d2)

(* The matching records, by position, split into their periods.            *)
Classes(rows, attr) ==
    {{j \in 1..Len(rows) : SamePeriod(attr, rows[i].date, rows[j].date)} :
        i \in 1..Len(rows)}

RECURSIVE SumCounts(_)
SumCounts(pairs) ==
    IF pairs = <<>> THEN 0 ELSE Head(pairs).count + SumCounts(Tail(pairs))

(* The query that keeps the deposits (charges) alone, and the one that     *)
(* keeps the withdrawals (payments) alone.                                 *)
PrimaryOnly(k) ==
    IF k = "debit" THEN filter_withdrawals(<<>>, k, FALSE)
    ELSE filter_payments(<<>>, k, FALSE)

SecondaryOnly(k) ==
    IF k = "debit" THEN filter_deposits(<<>>, k, FALSE)
    ELSE filter_charges(<<>>, k, FALSE)

WholeCents(table) ==
    \A r \in Records(table) : (Primary(r) + Secondary(r)) % Cent = 0

(* C11 as stated: whatever terminal operations came before it, a terminal  *)
(* operation returns what it returns on a fresh builder given the same     *)
(* filter calls: for transactions(), the same rows in the same order.      *)
C11_TerminalsKeepState ==
    (result.op \in TerminalOps /\ IsNone(group_by_attr)) =>
        /\ result.op = "count" => result.val = count(store, Filters(result.before))
        /\ result.op = "sum" =>
              result.val = sum(store, Filters(result.before), kind)
        /\ result.op = "average" =>
              result.val = average(store, Filters(result.before), kind).val
        /\ result.op = "transactions" =>
              result.val = transactions(store, Filters(result.before),
                                        result.args[1], result.args[2],
                                        result.args[3], result.args[4]).val

(* C12: with group_by(period) set, count() returns one (period, count)     *)
(* pair for each distinct period holding a matching record, every count is *)
(* at least 1 and is the number of matching records of one period, and the *)
(* counts add up to the ungrouped count(); records spanning two calendar   *)
(* months grouped by month give exactly two pairs.                         *)
C12_GroupedCount ==
    (result.op = "count" /\ ~IsNone(group_by_attr)) =>
        LET classes == Classes(After, Val(group_by_attr))
            pairs == result.val
        IN  /\ Len(pairs) = Cardinality(classes)
            /\ \A i, j \in 1..Len(pairs) :
                  pairs[i].period = pairs[j].period => i = j
            /\ \A i \in 1..Len(pairs) : pairs[i].count >= 1
            /\ \A c \in classes :
                  \E i \in 1..Len(pairs) :
                      /\ pairs[i].count = Cardinality(c)
                      /\ pairs[i].period[1] = Year(After[CHOOSE j \in c : TRUE].date)
            /\ SumCounts(pairs) = count(store, query)

C12_Witness ==
    /\ result.op = "count"
    /\ group_by_attr = Some("month")
    /\ Len(store) = 2
    /\ Year(store[1].date) = Year(store[2].date)
    /\ Month(store[1].date) # Month(store[2].date)
    /\ query = <<>>
    /\ Len(result.val) = 2
    /\ SumCounts(result.val) = 2

(* C13 as stated: on a ledger where every record has exactly one amount,   *)
(* the sum() of the deposits-only (charges-only) query plus the sum() of   *)
(* the withdrawals-only (payments-only) query equals the unfiltered sum(), *)
(* and on a debit account the withdrawals-only sum is negative or zero.    *)
C13_SumSplitsExactly ==
    (/\ result.op = "sum"
     /\ IsNone(group_by_attr)
     /\ result.before = PrimaryOnly(kind)
     /\ \A r \in Records(store) : OneAmount(r))
    => /\ result.val + sum(store, SecondaryOnly(kind), kind) = sum(store, <<>>, kind)
       /\ kind = "debit" => sum(store, SecondaryOnly(kind), kind) <= 0

(* C13 as amended: the two partial sums add up to the unfiltered sum()     *)
(* exactly when every amount is a whole number of cents, and to within one *)
(* cent otherwise, each of the three being rounded on its own; on a debit  *)
(* account the withdrawals-only sum is negative or zero.                   *)
C13_SumSplits ==
    (/\ result.op = "sum"
     /\ IsNone(group_by_attr)
     /\ result.before = PrimaryOnly(kind)
     /\ \A r \in Records(store) : OneAmount(r))
    => LET parts == result.val + sum(store, SecondaryOnly(kind), kind)
           whole == sum(store, <<>>, kind)
       IN  /\ Abs(parts - whole) <= Cent
           /\ WholeCents(store) => parts = whole
           /\ kind = "debit" => sum(store, SecondaryOnly(kind), kind) <= 0

C13_Witness ==
    /\ kind = "debit"
    /\ result.op = "sum"
    /\ IsNone(group_by_attr)
    /\ result.before = PrimaryOnly(kind)
    /\ Len(store) = 2
    /\ WholeCents(store)
    /\ result.val = 100
    /\ sum(store, SecondaryOnly(kind), kind) = -30
    /\ sum(store, <<>>, kind) = 70

(* C15: transactions() asked for more than one ordering criterion raises   *)
(* ValueError, returns no rows and leaves the builder's query as it was;   *)
(* asked for at most one it does not raise.                                *)
C15_OneOrdering ==
    result.op = "transactions" =>
        IF result.args[2] /\ result.args[3]
        THEN /\ result.raised = "ValueError"
             /\ result.val = None
             /\ query = result.before
        ELSE result.raised = "none"

C15_Witness ==
    /\ result.op = "transactions"
    /\ result.args[2] /\ result.args[3]
    /\ result.raised = "ValueError"
    /\ result.before # <<>>
    /\ Len(store) = 2

----------------------------------------------------------------------------
(* Properties of the batch load.                                           *)

NonDecreasing(rows) ==
    \A i, j \in 1..Len(rows) : i < j => rows[i].date <= rows[j].date

Descending(rows) ==
    \A i, j \in 1..Len(rows) : i < j => rows[i].date >= rows[j].date

IsReverseOf(rows, file) ==
    /\ Len(rows) = Len(file)
    /\ \A i \in 1..Len(file) : rows[i] = file[Len(file) + 1 - i]

(* The rows add_data is about to insert, in the order it inserts them.     *)
C16_Loaded ==
    result.op = "add_data" =>
        LET file == result.args[1]
        IN  /\ NonDecreasing(file) => batch = file
            /\ ~NonDecreasing(file) => IsReverseOf(batch, file)
            /\ Descending(file) => NonDecreasing(batch)
            /\ (~NonDecreasing(file) /\ ~Descending(file)) => ~NonDecreasing(batch)

(* Each step of the load takes the first of the rows left and appends it   *)
(* to the table, or leaves the table alone.                                *)
C16_Step ==
    batch # <<>> =>
        /\ batch' = Tail(batch)
        /\ \/ store' = store
           \/ /\ Len(store') = Len(store) + 1
              /\ SubSeq(store', 1, Len(store)) = store
              /\ Tuple(store'[Len(store')]) = Tuple(Head(batch))

(* C16: add_data inserts the rows of a batch in input order when their     *)
(* dates are non-decreasing and otherwise in exactly the reverse of input  *)
(* order: a descending statement goes in chronologically, and an input     *)
(* that is neither ascending nor descending goes in reversed and so not in *)
(* date order.                                                             *)
C16_InsertionOrder == [](C16_Loaded) /\ [][C16_Step]_vars

C16_Witness ==
    /\ result.op = "add_data"
    /\ Len(result.args[1]) = 3
    /\ ~NonDecreasing(result.args[1])
    /\ ~Descending(result.args[1])
    /\ IsReverseOf(batch, result.args[1])
    /\ batch[1].date < batch[2].date
    /\ batch[2].date > batch[3].date

----------------------------------------------------------------------------
(* Properties of the categories.                                           *)

Names(list) == {list[i] : i \in 1..Len(list)}

NoDuplicate(list) == \A i, j \in 1..Len(list) : list[i] = list[j] => i = j

(* The description holds no keyword of any category of the file.           *)
Uncategorized(file, description) ==
    \A n \in DOMAIN file : ~AnyKeyword(file[n], description)

C17_Step ==
    (/\ result.op = "add_keywords"
     /\ result.raised = "none"
     /\ result'.op = "add_keywords")
    => \A n \in Names(result.args[3]) \cap DOMAIN yaml' :
           \A k \in Names(yaml'[n]) : In(k, cats'[result.args[1]].keywords)

C17_SubcategoryFollowed == [][C17_Step]_vars

(* C18 as stated: no keyword occurs more than once in a category's         *)
(* in-memory keyword list or in its persisted keyword list.                *)
C18_KeywordsAreSets ==
    /\ \A i \in DOMAIN cats : NoDuplicate(cats[i].keywords)
    /\ \A n \in DOMAIN yaml : NoDuplicate(yaml[n])

(* C19: add_keywords or remove_keywords that lists the category's own name *)
(* among sub_categories raises, and leaves the keywords of every object    *)
(* and the file as they were, whatever else the call lists.                *)
C19_Step ==
    (/\ result'.op \in {"add_keywords", "remove_keywords"}
     /\ cats[result'.args[1]].name \in Names(result'.args[3]))
    => /\ result'.raised # "none"
       /\ cats' = cats
       /\ yaml' = yaml

C19_NoSelfSubcategory == [][C19_Step]_vars

C19_Witness ==
    /\ result.op = "add_keywords"
    /\ result.raised = "ValueError"
    /\ result.args[2] = << <<"z">> >>
    /\ result.args[3] = <<"misc", "food">>
    /\ cats[result.args[1]].name = "food"
    /\ "misc" \in DOMAIN yaml
    /\ ~In(<<"z">>, cats[result.args[1]].keywords)

(* C20 as stated: add_keywords or remove_keywords naming a subcategory the *)
(* file does not hold, and delete_category on a name the file no longer    *)
(* holds, do not raise and leave the objects and the file as they were.    *)
C20_Step ==
    (\/ /\ result'.op \in {"add_keywords", "remove_keywords"}
        /\ Names(result'.args[3]) \ DOMAIN yaml # {}
     \/ /\ result'.op = "delete_category"
        /\ cats[result'.args[1]].name \notin DOMAIN yaml)
    => /\ result'.raised = "none"
       /\ cats' = cats
       /\ yaml' = yaml

C20_UnknownIsNoOp == [][C20_Step]_vars

(* The object is the only one alive that was made for its name.            *)
OnlyLive(i) == \A j \in DOMAIN cats : cats[j].name = cats[i].name => j = i

(* C21 as stated: after every add_keywords or remove_keywords call on the  *)
(* only live object of a name, whether the call returned or raised, the    *)
(* object's keywords are the list the file holds under that name.          *)
C21_MemoryIsFile ==
    (/\ result.op \in {"add_keywords", "remove_keywords"}
     /\ OnlyLive(result.args[1]))
    => /\ cats[result.args[1]].name \in DOMAIN yaml
       /\ cats[result.args[1]].keywords = yaml[cats[result.args[1]].name]

----------------------------------------------------------------------------
(* Properties of the data directory.                                       *)

(* C22 as stated: delete_account(name), debit or credit, removes the file  *)
(* of the account if and only if the account exists and what was typed is  *)
(* its name; after a removal the account cannot be opened, and can be made *)
(* again with create=True; otherwise the directory stays as it was.        *)
C22_Step ==
    result'.op = "delete_account" =>
        LET k == result'.args[1]
            n == result'.args[2]
            typed == result'.args[3]
        IN  IF DbPath(k, n) \in DOMAIN files /\ typed = n
            THEN /\ DbPath(k, n) \notin DOMAIN files'
                 /\ Account(files', k, n, FALSE).raised = "FileNotFoundError"
                 /\ Account(files', k, n, TRUE).raised = "none"
            ELSE files' = files

C22_DeleteWhenConfirmed == [][C22_Step]_vars

----------------------------------------------------------------------------
(* Properties of the scan for possible duplicates.                         *)

SameButDescription(r, o) ==
    Tuple(r)[2] = Tuple(o)[2] /\ SubSeq(Tuple(r), 3, 5) = SubSeq(Tuple(o), 3, 5)

(* How many times the scan reported the two positions, in either order.    *)
Reported(pairs, i, j) ==
    Cardinality({k \in DOMAIN pairs : {pairs[k][1], pairs[k][2]} = {i, j}})

(* What a scan reported and did, the store before it in result.before.     *)
C23_Scan ==
    result.op = "find_possible_duplicates" =>
        /\ \A i, j \in 1..Len(result.before) :
              i < j => Reported(result.val, i, j)
                         = IF SameButDescription(result.before[i], result.before[j])
                           THEN 1 ELSE 0
        /\ \A k \in DOMAIN result.val :
              /\ result.val[k][1] # result.val[k][2]
              /\ {result.val[k][1], result.val[k][2]} \subseteq 1..Len(result.before)
        /\ ~result.args[1] => store = result.before

(* A record leaves the store only in a scan whose removal was confirmed.   *)
C23_Step ==
    (\E r \in Records(store) : r \notin Records(store'))
    => result'.op = "find_possible_duplicates" /\ result'.args[1]

(* C23: find_possible_duplicates() reports an unordered pair of distinct   *)
(* stored records if and only if the two agree on date, balance and both   *)
(* amounts, whatever their descriptions, and reports it exactly once;      *)
(* records leave the store only when the user confirms the removal.        *)
C23_PossibleDuplicates == [](C23_Scan) /\ [][C23_Step]_vars

(* The scenario of C23: two records that differ in their description only  *)
(* are reported as one pair, and stay when the removal is not confirmed.   *)
C23_Witness ==
    /\ result.op = "find_possible_duplicates"
    /\ ~result.args[1]
    /\ Len(store) = 2
    /\ store[1].description # store[2].description
    /\ Tuple(store[1])[2] = Tuple(store[2])[2]
    /\ result.val = << <<1, 2>> >>

----------------------------------------------------------------------------
(* Properties of the stored records.                                       *)

ReadOps ==
    {"filter_deposits", "filter_withdrawals", "filter_charges", "filter_payments",
     "filter_date_range", "filter_description", "filter_amount", "group_by",
     "count", "sum", "average", "transactions",
     "get_transactions_with_no_category", "check_validity", "get_balance"}

(* The table as it was, record for record, at the start of the table it is *)
(* now.                                                                    *)
Kept(before, after) ==
    /\ Len(before) <= Len(after)
    /\ \A i \in 1..Len(before) : after[i] = before[i]

C24_Step ==
    /\ result'.op \in ReadOps => store' = store /\ files' = files
    /\ result'.op = "_add_transaction" =>
          /\ Kept(store, store')
          /\ \A p \in DOMAIN files : p \in DOMAIN files' /\ Kept(files[p], files'[p])

(* C24: no operation of the builder and no check_validity or get_balance   *)
(* call adds, removes or changes a stored record, and an insert leaves     *)
(* every record stored before it as it was.                                *)
C24_RecordsImmutable == [][C24_Step]_vars

(* An insert of a row that differs from a stored record below the second   *)
(* only: the stored record keeps its date.                                 *)
C24_Witness ==
    /\ result.op = "_add_transaction"
    /\ Len(store) = 2
    /\ \E i \in 1..Len(store) :
          /\ store[i].id = generate_hash_id(result.args[1].description,
                                            result.args[1].date,
                                            result.args[1].deposit,
                                            result.args[1].withdrawal,
                                            result.args[1].balance)
          /\ store[i].date # result.args[1].date
    /\ files[DbPath(kind, Val(account_name))] = store

----------------------------------------------------------------------------
(* Properties of an interrupted batch load.                                *)

(* The table in the file of the account in use.                            *)
Durable == files[DbPath(kind, Val(account_name))]

IdOf(r) == <<r.description, r.date \div TicksPerSecond, r.deposit, r.withdrawal,
             r.balance>>

(* The rows of a frame that bring an id the table does not hold and no     *)
(* earlier row of the frame brought, in the order of the frame.            *)
RECURSIVE Deduplicated(_, _)
Deduplicated(found, rows) ==
    IF rows = <<>> THEN <<>>
    ELSE LET before == SubSeq(rows, 1, Len(rows) - 1)
             last == rows[Len(rows)]
             new == /\ \A i \in 1..Len(found) : found[i].id # IdOf(last)
                    /\ \A i \in 1..Len(before) : IdOf(before[i]) # IdOf(last)
         IN  Deduplicated(found, before) \o (IF new THEN <<last>> ELSE <<>>)

(* The table is the table found followed by the deduplicated rows.         *)
Ingested(table, found, rows) ==
    LET new == Deduplicated(found, rows)
    IN  /\ Len(table) = Len(found) + Len(new)
        /\ SubSeq(table, 1, Len(found)) = found
        /\ \A i \in 1..Len(new) : Tuple(table[Len(found) + i]) = Tuple(new[i])
        /\ \A i, j \in 1..Len(table) : table[i].id = table[j].id => i = j

(* While add_data runs: the file holds the table found and the rows        *)
(* iterated so far, and add_data run again from here to its end leaves     *)
(* what one whole run leaves.                                              *)
C25_Loading ==
    ~IsNone(loading) =>
        LET data == load_csv_data(Val(loading).file)
            done == SubSeq(data, 1, Len(data) - Len(batch))
        IN  /\ store = Durable
            /\ Ingested(Durable, Val(loading).found, done)
            /\ Ingested(AddAll(Durable, data), Val(loading).found, data)

(* After an interruption the file holds what was committed, and the same   *)
(* add_data run again to its end leaves what one whole run leaves.         *)
C25_Interrupted ==
    result.op = "interrupt" =>
        /\ store = Durable
        /\ Ingested(AddAll(Durable, load_csv_data(result.args[1])),
                    result.args[2], load_csv_data(result.args[1]))

(* Every commit of the loop, the last one too, adds the next row of the    *)
(* frame or nothing.                                                       *)
C25_Step ==
    (~IsNone(loading) /\ result'.op = "_add_transaction") =>
        LET data == load_csv_data(Val(loading).file)
        IN  Ingested(files'[DbPath(kind, Val(account_name))], Val(loading).found,
                     SubSeq(data, 1, Len(data) - Len(batch')))

(* C25: at every point of add_data, and after an interruption at any of    *)
(* them, the durable store is the store as add_data found it followed by   *)
(* the deduplicated records of a prefix of the batch in insertion order,   *)
(* without duplicate ids, and the same add_data run again to completion    *)
(* leaves the store one uninterrupted run leaves.                          *)
C25_CommitPerRecord ==
    [](C25_Loading /\ C25_Interrupted) /\ [][C25_Step]_vars

(* An interruption after the first commit of a batch that had more to add. *)
C25_Witness ==
    /\ result.op = "interrupt"
    /\ Len(store) = Len(result.args[2]) + 1
    /\ Len(AddAll(store, load_csv_data(result.args[1]))) = Len(store) + 1
    /\ ~is_monotonic_increasing(result.args[1])

----------------------------------------------------------------------------
(* Properties of the validity check of a credit account.                   *)

(* C26: on a credit ledger with distinct dates, one amount per record and  *)
(* every balance the previous balance plus the charge minus the payment,   *)
(* check_validity() returns true.                                          *)
C26_CreditLedgerValid ==
    (kind = "credit" /\ Consistent(store) /\ result.op = "check_validity") =>
        result.raised = "none" /\ result.val = TRUE

(* A charge of 100 and then a payment of 30 leave 70 owed.                 *)
C26_Witness ==
    /\ kind = "credit"
    /\ Consistent(store)
    /\ Len(store) = 2
    /\ Earliest(store).deposit = Some(100)
    /\ Latest(store).withdrawal = Some(30)
    /\ Latest(store).balance = 70
    /\ result.op = "check_validity"
    /\ result.val = TRUE

----------------------------------------------------------------------------
(* Properties of the inverted amount filter.                               *)

(* C27: with a bound given, filter_amount(min, max, invert=True) keeps a   *)
(* record that has exactly one amount if and only if the same call with    *)
(* invert=False drops it.                                                  *)
C27_InvertPartitions ==
    (/\ result.op = "filter_amount"
     /\ ~(IsNone(result.args[1]) /\ IsNone(result.args[2])))
    => LET other == Matching(store, filter_amount(result.before, result.args[1],
                                                  result.args[2], ~result.args[3]))
       IN  \A r \in Records(Before) :
               OneAmount(r) => (r \in Records(After)) # (r \in Records(other))

(* Both bounds at 30, inverted, on a withdrawal of 30 and a deposit of 100: *)
(* the deposit is kept.                                                    *)
C27_Witness ==
    /\ result.op = "filter_amount"
    /\ result.args = <<Some(30), Some(30), TRUE>>
    /\ result.before = <<>>
    /\ Len(store) = 2
    /\ \A r \in Records(store) : OneAmount(r)
    /\ \E r \in Records(store) : TheAmount(r) = 30
    /\ Len(After) = 1
    /\ TheAmount(After[1]) = 100

----------------------------------------------------------------------------
(* Properties of the grouped sum.                                          *)

RECURSIVE SumSums(_)
SumSums(lines) ==
    IF lines = <<>> THEN 0 ELSE Head(lines).sum + SumSums(Tail(lines))

(* The records of a list at the given positions, in order.                 *)
At(rows, positions) ==
    SelectSeq([i \in 1..Len(rows) |-> [at |-> i, r |-> rows[i]]],
              LAMBDA e : e.at \in positions)

(* What ungrouped sum() totals before it rounds: deposits minus            *)
(* withdrawals, and payments minus charges.                                *)
Unrounded(entries) ==
    LET rows == [i \in 1..Len(entries) |-> entries[i].r]
    IN  IF kind = "debit"
        THEN SumCol(rows, "deposit") - SumCol(rows, "withdrawal")
        ELSE SumCol(rows, "withdrawal") - SumCol(rows, "deposit")

(* C28: with group_by(period) set, sum() returns exactly one line for each *)
(* period that holds a matching record; the value of a line is what        *)
(* ungrouped sum() totals over the records of that period, with the sign   *)
(* ungrouped sum() gives it, and the values add up to the unrounded        *)
(* ungrouped sum of the matching records.                                  *)
C28_GroupedSum ==
    (result.op = "sum" /\ ~IsNone(group_by_attr)) =>
        LET classes == Classes(After, Val(group_by_attr))
            lines == result.val
        IN  /\ Len(lines) = Cardinality(classes)
            /\ \A i, j \in 1..Len(lines) : lines[i].period = lines[j].period => i = j
            /\ \A c \in classes :
                  \E i \in 1..Len(lines) :
                      /\ lines[i].period
                           = group_by_period(Val(group_by_attr),
                                             After[CHOOSE j \in c : TRUE].date)
                      /\ lines[i].sum = Unrounded(At(After, c))
                      /\ Round2(lines[i].sum)
                           = sum([j \in 1..Len(At(After, c)) |-> At(After, c)[j].r],
                                 <<>>, kind)
            /\ SumSums(lines) = Unrounded(At(After, 1..Len(After)))
            /\ Round2(SumSums(lines)) = sum(store, query, kind)

(* A charge in January and a payment in February, by month: two lines, the *)
(* charge counted negative as ungrouped sum() counts it.                   *)
C28_Witness ==
    /\ kind = "credit"
    /\ result.op = "sum"
    /\ group_by_attr = Some("month")
    /\ Len(store) = 2
    /\ Len(result.val) = 2
    /\ result.val[1].sum = -100
    /\ result.val[2].sum = 30
    /\ sum(store, query, kind) = -70

-----------------------------------------------------------------------------
(* pdf_to_csv.py, convert_td_statement_to_csv: the balance column of one   *)
(* page.  A row of the frame holds Withdrawal, Deposit and Balance, each a *)
(* number in thousandths or NaN (None) where the page prints nothing.      *)
(* Arithmetic with NaN gives NaN.                                          *)

MaxRows == 3

Minus(a, b) == IF IsNone(a) \/ IsNone(b) THEN None ELSE Some(Val(a) - Val(b))
Plus(a, b) == IF IsNone(a) \/ IsNone(b) THEN None ELSE Some(Val(a) + Val(b))

(* The body of the first loop, for the row at position i (from 2 here,     *)
(* from 1 in the source).                                                  *)
forward_row(frame, i) ==
    IF IsNone(frame[i].Balance)
    THEN IF ~IsNone(frame[i].Withdrawal)
         THEN [frame EXCEPT ![i].Balance
                               = Minus(frame[i - 1].Balance, frame[i].Withdrawal)]
         ELSE IF ~IsNone(frame[i].Deposit)
              THEN [frame EXCEPT ![i].Balance
                                    = Plus(frame[i - 1].Balance, frame[i].Deposit)]
              ELSE frame
    ELSE frame

RECURSIVE forward_from(_, _)
forward_from(frame, i) ==
    IF i > Len(frame) THEN frame ELSE forward_from(forward_row(frame, i), i + 1)

forward_pass(frame) == forward_from(frame, 2)

(* A variant of the second loop's body that undoes the row's own amounts.  *)
backward_row_own(frame, i) ==
    IF IsNone(frame[i].Balance) /\ ~IsNone(frame[i + 1].Balance)
    THEN IF ~IsNone(frame[i].Withdrawal)
         THEN [frame EXCEPT ![i].Balance
                               = Plus(frame[i + 1].Balance, frame[i].Withdrawal)]
         ELSE IF ~IsNone(frame[i].Deposit)
              THEN [frame EXCEPT ![i].Balance
                                    = Minus(frame[i + 1].Balance, frame[i].Deposit)]
              ELSE frame
    ELSE frame

(* The body of the second loop, for the row at position i: the balance     *)
(* before the next row's amount was applied.                               *)
backward_row(frame, i) ==
    IF IsNone(frame[i].Balance) /\ ~IsNone(frame[i + 1].Balance)
    THEN IF ~IsNone(frame[i + 1].Withdrawal)
         THEN [frame EXCEPT ![i].Balance
                               = Plus(frame[i + 1].Balance, frame[i + 1].Withdrawal)]
         ELSE IF ~IsNone(frame[i + 1].Deposit)
              THEN [frame EXCEPT ![i].Balance
                                    = Minus(frame[i + 1].Balance, frame[i + 1].Deposit)]
              ELSE frame
    ELSE frame

RECURSIVE backward_from(_, _)
backward_from(frame, i) ==
    IF i < 1 THEN frame ELSE backward_from(backward_row(frame, i), i - 1)

backward_pass(frame) == backward_from(frame, Len(frame) - 1)

(* df["Balance"].round(2)                                                  *)
round_balance(frame) ==
    [i \in 1..Len(frame) |->
        [frame[i] EXCEPT !.Balance = IF IsNone(@) THEN None ELSE Some(Round2(Val(@)))]]

(* df[column].sum(): NaN is skipped.                                       *)
RECURSIVE column_sum(_, _, _)
column_sum(frame, column, i) ==
    IF i > Len(frame) THEN 0
    ELSE (IF IsNone(frame[i][column]) THEN 0 ELSE Val(frame[i][column]))
         + column_sum(frame, column, i + 1)

(* The steps of the loop over the pages.  The columns of a page are read   *)
(* and made numbers, then come the two loops over the balance, the         *)
(* rounding and the comparison with the printed totals, which ends the     *)
(* conversion when it fails; a page that passes joins the finished frames  *)
(* and the next page starts with fresh columns.                            *)
ParsePage(page) ==
    /\ pc = "page"
    /\ df' = page
    /\ balance_col' = [i \in 1..Len(page) |-> page[i].Balance]
    /\ pc' = "forward"
    /\ UNCHANGED <<accountVars, kind, storeVars, catVars, builderVars, result>>

ForwardPass ==
    /\ pc = "forward"
    /\ df' = forward_pass(df)
    /\ pc' = "backward"
    /\ UNCHANGED <<accountVars, kind, storeVars, catVars, builderVars, result,
                   balance_col>>

BackwardPass ==
    /\ pc = "backward"
    /\ df' = backward_pass(df)
    /\ pc' = "round"
    /\ UNCHANGED <<accountVars, kind, storeVars, catVars, builderVars, result,
                   balance_col>>

RoundBalance ==
    /\ pc = "round"
    /\ df' = round_balance(df)
    /\ pc' = "assert"
    /\ UNCHANGED <<accountVars, kind, storeVars, catVars, builderVars, result,
                   balance_col>>

AssertTotals(total_withdrawals, total_deposits) ==
    /\ pc = "assert"
    /\ IF /\ Round2(column_sum(df, "Withdrawal", 1)) = Round2(total_withdrawals)
          /\ Round2(column_sum(df, "Deposit", 1)) = Round2(total_deposits)
       THEN /\ pc' = "page"
            /\ df' = <<>>
            /\ balance_col' = <<>>
            /\ result' = Call("page", <<>>, Returned(None), <<>>)
       ELSE /\ pc' = "failed"
            /\ UNCHANGED <<balance_col, df>>
            /\ result' = Call("page", <<>>, Raise("AssertionError"), <<>>)
    /\ UNCHANGED <<accountVars, kind, storeVars, catVars, builderVars>>

(* Pages: a row with a withdrawal, a deposit, both or neither, and with or *)
(* without a printed balance.  The deposit is not a whole number of cents, *)
(* so that rounding the balance changes a frame.                           *)
PageRows ==
    [Withdrawal : {None, Some(3 * Cent)},
     Deposit : {None, Some(10 * Cent + 4)},
     Balance : {None, Some(50 * Cent)}]

Pages == UNION {[1..n -> PageRows] : n \in 1..MaxRows}

TotalArgs == {0, 3 * Cent, 10 * Cent}

InitPdf ==
    /\ kind = "debit"
    /\ store = <<>>
    /\ batch = <<>>
    /\ loading = None
    /\ yaml = <<>>
    /\ cats = <<>>
    /\ query = <<>>
    /\ group_by_attr = None
    /\ result = NoCall
    /\ pc = "page"
    /\ balance_col = <<>>
    /\ df = <<>>
    /\ account_name = None
    /\ files = <<>>

NextPdf ==
    \/ \E page \in Pages : ParsePage(page)
    \/ ForwardPass
    \/ BackwardPass
    \/ RoundBalance
    \/ \E tw, td \in TotalArgs : AssertTotals(tw, td)

SpecPdf == InitPdf /\ [][NextPdf]_vars

(* The row's amount as the statement applies it to the balance.            *)
Applied(row) ==
    (IF IsNone(row.Deposit) THEN 0 ELSE Val(row.Deposit))
    - (IF IsNone(row.Withdrawal) THEN 0 ELSE Val(row.Withdrawal))

OneOfTheTwo(row) == IsNone(row.Withdrawal) # IsNone(row.Deposit)

FirstPrinted ==
    CHOOSE i \in 1..Len(balance_col) :
        /\ ~IsNone(balance_col[i])
        /\ \A j \in 1..(i - 1) : IsNone(balance_col[j])

(* Row b's balance is row a's balance with row b's amount applied; a and b *)
(* are neighbours, b = a + 1.                                              *)
Follows(a, b) == Val(df[b].Balance) = Val(df[a].Balance) + Applied(df[b])

(* C29: on a page where every row has exactly one of withdrawal and        *)
(* deposit and some row prints a balance, after the forward pass and then  *)
(* the backward pass every row has a balance, every printed balance is     *)
(* what the page printed, and every inferred balance fits the recurrence   *)
(* balance[i] = balance[i-1] - withdrawal[i] + deposit[i] with the         *)
(* neighbour it was inferred from: the row before it for a row after the   *)
(* first printed balance, the row after it for a row before the first      *)
(* printed balance.                                                        *)
C29_BalancesInferred ==
    (/\ pc = "round"
     /\ \A i \in 1..Len(df) : OneOfTheTwo(df[i])
     /\ \E i \in 1..Len(df) : ~IsNone(balance_col[i]))
    => /\ \A i \in 1..Len(df) : ~IsNone(df[i].Balance)
       /\ \A i \in 1..Len(df) :
             ~IsNone(balance_col[i]) => df[i].Balance = balance_col[i]
       /\ \A i \in 1..Len(df) :
             IsNone(balance_col[i]) =>
                 IF i > FirstPrinted THEN Follows(i - 1, i) ELSE Follows(i, i + 1)

(* A page of three rows that prints a balance only in the middle: the      *)
(* first row's balance comes from the backward pass, the last row's from   *)
(* the forward pass, and the two neighbours' amounts differ.               *)
C29_Witness ==
    /\ pc = "round"
    /\ balance_col = <<None, Some(50 * Cent), None>>
    /\ IsNone(df[1].Deposit) /\ ~IsNone(df[1].Withdrawal)
    /\ IsNone(df[2].Withdrawal) /\ ~IsNone(df[2].Deposit)
    /\ IsNone(df[3].Deposit) /\ ~IsNone(df[3].Withdrawal)
    /\ df[1].Balance = Some(40 * Cent - 4)
    /\ df[2].Balance = Some(50 * Cent)
    /\ df[3].Balance = Some(47 * Cent)

============================================================================
